---------------------------- MODULE Spec2Model ----------------------------
(***************************************************************************)
(* A model of the qlab-golang client library: the three-way reconciliation *)
(* engine (indexer, field comparator, PerformThreeWayComparison, conflict  *)
(* identification and resolution), the request/reply coordinator           *)
(* (sendWithRetry and the persistent reply listener) and the cue mutation  *)
(* driver.                                                                 *)
(*                                                                         *)
(* Strings of the program are TLA+ strings.  A loosely typed property      *)
(* value (Go `any`) is a record [t, s, n]: t is the dynamic type, s the    *)
(* string payload, n the numeric payload (a float64 is held in tenths).    *)
(* A cue (Go map[string]any) is a function from property names to values; *)
(* its "cues" entry, when present, is the sequence of its children.        *)
(***************************************************************************)
EXTENDS Integers, Sequences, FiniteSets, TLC

(***************************************************************************)
(* Strings                                                                 *)
(***************************************************************************)

\* strings.Contains(s, c) for a one-character c
Contains(s, c) == \E i \in 1..Len(s) : SubSeq(s, i, i) = c

\* strings.Contains(s, sub) for any substring
ContainsStr(s, sub) ==
    \E i \in 1..(Len(s) - Len(sub) + 1) : SubSeq(s, i, i + Len(sub) - 1) = sub

\* strings.HasPrefix
HasPrefix(s, p) == Len(s) >= Len(p) /\ SubSeq(s, 1, Len(p)) = p

LowerChar(c) ==
    CASE c = "A" -> "a" [] c = "B" -> "b" [] c = "C" -> "c" [] c = "D" -> "d"
      [] c = "E" -> "e" [] c = "F" -> "f" [] c = "G" -> "g" [] c = "H" -> "h"
      [] c = "I" -> "i" [] c = "J" -> "j" [] c = "K" -> "k" [] c = "L" -> "l"
      [] c = "M" -> "m" [] c = "N" -> "n" [] c = "O" -> "o" [] c = "P" -> "p"
      [] c = "Q" -> "q" [] c = "R" -> "r" [] c = "S" -> "s" [] c = "T" -> "t"
      [] c = "U" -> "u" [] c = "V" -> "v" [] c = "W" -> "w" [] c = "X" -> "x"
      [] c = "Y" -> "y" [] c = "Z" -> "z" [] OTHER -> c

RECURSIVE ToLowerFrom(_, _)
ToLowerFrom(s, i) ==
    IF i > Len(s) THEN "" ELSE LowerChar(SubSeq(s, i, i)) \o ToLowerFrom(s, i + 1)

\* strings.ToLower
ToLower(s) == ToLowerFrom(s, 1)

\* strings.EqualFold (ASCII)
EqualFold(a, b) == ToLower(a) = ToLower(b)

RECURSIVE StripTrailingSlashes(_)
StripTrailingSlashes(p) ==
    IF Len(p) > 0 /\ SubSeq(p, Len(p), Len(p)) = "/"
    THEN StripTrailingSlashes(SubSeq(p, 1, Len(p) - 1))
    ELSE p

RECURSIVE AfterLastSlash(_, _)
AfterLastSlash(p, i) ==
    IF i = 0 THEN p
    ELSE IF SubSeq(p, i, i) = "/" THEN SubSeq(p, i + 1, Len(p))
    ELSE AfterLastSlash(p, i - 1)

\* filepath.Base
Base(p) ==
    IF p = "" THEN "."
    ELSE LET q == StripTrailingSlashes(p)
         IN  IF q = "" THEN "/" ELSE AfterLastSlash(q, Len(q))

(***************************************************************************)
(* Loosely typed values                                                    *)
(***************************************************************************)

Nil      == [t |-> "nil",     s |-> "", n |-> 0]
Str(x)   == [t |-> "string",  s |-> x,  n |-> 0]
Flt(k)   == [t |-> "float64", s |-> "", n |-> k]      \* the float k/10
IntV(k)  == [t |-> "int",     s |-> "", n |-> k]
BoolV(b) == [t |-> "bool",    s |-> "", n |-> IF b THEN 1 ELSE 0]

\* cue[prop]: a missing key reads as nil
Get(cue, prop) == IF prop \in DOMAIN cue THEN cue[prop] ELSE Nil

\* v, _ := cue[prop].(string)
GetString(cue, prop) == IF Get(cue, prop).t = "string" THEN Get(cue, prop).s ELSE ""

\* fmt.Sprintf("%g", k/10) for a float held in tenths
FmtG(k) ==
    LET a == IF k < 0 THEN 0 - k ELSE k
        sign == IF k < 0 THEN "-" ELSE ""
    IN  IF a % 10 = 0 THEN sign \o ToString(a \div 10)
        ELSE sign \o ToString(a \div 10) \o "." \o ToString(a % 10)

\* fmt.Sprintf("%.1f", k/10) for a float held in tenths
FmtF1(k) ==
    LET a == IF k < 0 THEN 0 - k ELSE k
        sign == IF k < 0 THEN "-" ELSE ""
    IN  sign \o ToString(a \div 10) \o "." \o ToString(a % 10)

\* normalizeProperty
normalizeProperty(value) ==
    CASE value.t = "nil"     -> ""
      [] value.t = "string"  -> value.s
      [] value.t = "float64" -> FmtG(value.n)
      [] value.t = "int"     -> ToString(value.n)
      [] value.t = "bool"    -> (IF value.n = 1 THEN "true" ELSE "false")
      [] OTHER               -> value.s

(***************************************************************************)
(* Field comparator                                                        *)
(***************************************************************************)

allProperties ==
    <<"name", "type", "fileTarget", "duration", "cueTargetNumber",
      "armed", "colorName", "flagged", "notes">>

\* the mutant of comparePropertyValues without the equivalence rules
comparePropertyValuesExact(property, val1, val2) == val1 = val2

\* comparePropertyValues
comparePropertyValues(property, val1, val2) ==
    IF val1 = val2 THEN TRUE
    ELSE IF property = "armed" \/ property = "flagged" THEN TRUE
    ELSE IF property = "duration"
            /\ ((val1 = "0" /\ val2 = "") \/ (val1 = "" /\ val2 = "0")) THEN TRUE
    ELSE IF property = "type" /\ EqualFold(val1, val2) THEN TRUE
    ELSE IF property = "fileTarget"
         THEN (IF val1 # "" /\ val2 # "" THEN Base(val1) = Base(val2) ELSE FALSE)
    ELSE IF property = "colorName"
            /\ ((val1 = "" /\ val2 = "none") \/ (val1 = "none" /\ val2 = "")) THEN TRUE
    ELSE IF property = "cueTargetNumber"
         THEN (IF val1 = "" /\ val2 = "" THEN TRUE ELSE val1 = val2)
    ELSE FALSE

\* the loop body's decision: is prop reported as a difference of cue1 and cue2
PropertyDiffers(cue1, cue2, prop) ==
    LET val1 == normalizeProperty(Get(cue1, prop))
        val2 == normalizeProperty(Get(cue2, prop))
    IN  /\ ~(val1 = "" /\ val2 = "")
        /\ ~((prop = "fileTarget" \/ prop = "cueTargetNumber")
             /\ (prop \notin DOMAIN cue1 \/ prop \notin DOMAIN cue2))
        /\ ~comparePropertyValues(prop, val1, val2)

\* fmt.Sprintf("'%s' -> '%s'", val1, val2)
DiffText(val1, val2) == "'" \o val1 \o "' -> '" \o val2 \o "'"

\* compareCuePropertiesDetailed: field name -> "'old' -> 'new'"
compareCuePropertiesDetailed(cue1, cue2) ==
    LET changed == {allProperties[i] : i \in
                      {j \in 1..Len(allProperties) :
                          PropertyDiffers(cue1, cue2, allProperties[j])}}
    IN  [prop \in changed |->
            DiffText(normalizeProperty(Get(cue1, prop)),
                     normalizeProperty(Get(cue2, prop)))]

\* compareCueProperties
compareCueProperties(cue1, cue2) ==
    DOMAIN compareCuePropertiesDetailed(cue1, cue2) = {}

(***************************************************************************)
(* Remote state indexer                                                    *)
(***************************************************************************)

\* the mutant of formatCueNumber that formats every float with %g
formatCueNumberShortest(cue) == normalizeProperty(Get(cue, "number"))

\* the number switch of indexCuesRecursively: the cue number as a string
formatCueNumber(cue) ==
    LET num == Get(cue, "number")
    IN  CASE num.t = "nil"     -> ""
          [] num.t = "string"  -> num.s
          [] num.t = "float64" ->
                (IF num.n % 10 = 0 /\ num.n >= 0 /\ num.n <= 9990
                 THEN FmtF1(num.n) ELSE FmtG(num.n))
          [] num.t = "int"     -> ToString(num.n)
          [] OTHER             -> normalizeProperty(num)

\* the full number: the parent's number is prefixed unless the number has a dot
buildFullNumber(parentNumber, cueNumber) ==
    IF parentNumber # "" /\ cueNumber # ""
    THEN (IF Contains(cueNumber, ".") THEN cueNumber
          ELSE parentNumber \o "." \o cueNumber)
    ELSE cueNumber

\* the mutant of buildPositionKey that counts the index from 1
buildPositionKeyFromOne(parentNumber, i, cueType, cueName) ==
    IF parentNumber # ""
    THEN parentNumber \o "@" \o ToString(i + 1) \o "[" \o ToLower(cueType) \o ":" \o cueName \o "]"
    ELSE "@" \o ToString(i + 1) \o "[" \o ToLower(cueType) \o ":" \o cueName \o "]"

\* the positional key parent@index[type:name] (index counted from 0)
buildPositionKey(parentNumber, i, cueType, cueName) ==
    IF parentNumber # ""
    THEN parentNumber \o "@" \o ToString(i) \o "[" \o ToLower(cueType) \o ":" \o cueName \o "]"
    ELSE "@" \o ToString(i) \o "[" \o ToLower(cueType) \o ":" \o cueName \o "]"

EmptyMap == [k \in {} |-> Nil]

\* m[k] = v on a Go map
Put(m, k, v) == [x \in DOMAIN m \cup {k} |-> IF x = k THEN v ELSE m[x]]

HasSubCues(cue) == "cues" \in DOMAIN cue

RECURSIVE indexCuesRecursivelyAlways(_, _, _, _)
\* the mutant of indexCuesRecursively that enters every unnumbered cue
indexCuesRecursivelyAlways(cuesData, i, parentNumber, cueIndex) ==
    IF i > Len(cuesData) THEN cueIndex
    ELSE
      LET cue        == cuesData[i]
          fullNumber == buildFullNumber(parentNumber, formatCueNumber(cue))
          own == IF fullNumber # "" THEN Put(cueIndex, fullNumber, cue)
                 ELSE Put(cueIndex,
                          buildPositionKey(parentNumber, i - 1, GetString(cue, "type"),
                                           GetString(cue, "name")),
                          cue)
          sub == IF HasSubCues(cue)
                 THEN indexCuesRecursivelyAlways(cue["cues"], 1, fullNumber, own)
                 ELSE own
      IN  indexCuesRecursivelyAlways(cuesData, i + 1, parentNumber, sub)

RECURSIVE indexCuesRecursively(_, _, _, _)
\* indexCuesRecursively, from the i-th element (1-based) of cuesData on
indexCuesRecursively(cuesData, i, parentNumber, cueIndex) ==
    IF i > Len(cuesData) THEN cueIndex
    ELSE
      LET cue        == cuesData[i]
          cueNumber  == formatCueNumber(cue)
          fullNumber == buildFullNumber(parentNumber, cueNumber)
          cueName    == GetString(cue, "name")
          cueType    == GetString(cue, "type")
          own == IF fullNumber # "" THEN Put(cueIndex, fullNumber, cue)
                 ELSE IF cueType # "" \/ cueName # ""
                      THEN Put(cueIndex,
                               buildPositionKey(parentNumber, i - 1, cueType, cueName),
                               cue)
                      ELSE cueIndex
          sub == IF HasSubCues(cue)
                 THEN indexCuesRecursively(cue["cues"], 1, fullNumber, own)
                 ELSE own
      IN  indexCuesRecursively(cuesData, i + 1, parentNumber, sub)

RECURSIVE FlattenLists(_, _)
\* the cues of every cue list of a "data" array, in order
FlattenLists(lists, i) ==
    IF i > Len(lists) THEN <<>>
    ELSE (IF HasSubCues(lists[i]) THEN lists[i]["cues"] ELSE <<>>)
         \o FlattenLists(lists, i + 1)

(* A workspace tree is [shape, cues, lists]:                                *)
(*   "nil"       a nil map                                                  *)
(*   "cues"      {"cues": [...]}              (source format)               *)
(*   "workspace" {"workspace": {"cues": ...}} (parsed file format)          *)
(*   "dataMap"   {"data": {"cueLists": lists, "cues": cues}}                *)
(*   "dataArray" {"data": [cue lists]}        (remote query / cache format) *)
NilWorkspace      == [shape |-> "nil", cues |-> <<>>, lists |-> <<>>]
CuesWorkspace(cs) == [shape |-> "cues", cues |-> cs, lists |-> <<>>]
NestedWorkspace(cs) == [shape |-> "workspace", cues |-> cs, lists |-> <<>>]
DataWorkspace(ls) == [shape |-> "dataArray", cues |-> <<>>, lists |-> ls]

\* the cue array indexCuesFromWorkspace extracts from a workspace
workspaceCuesData(workspace) ==
    CASE workspace.shape = "cues"      -> workspace.cues
      [] workspace.shape = "workspace" -> workspace.cues
      [] workspace.shape = "dataMap"   ->
            FlattenLists(workspace.lists, 1) \o workspace.cues
      [] workspace.shape = "dataArray" -> FlattenLists(workspace.lists, 1)
      [] OTHER                         -> <<>>

\* indexCuesFromWorkspace
indexCuesFromWorkspace(workspace) ==
    IF workspace.shape = "nil" THEN EmptyMap
    ELSE indexCuesRecursively(workspaceCuesData(workspace), 1, "", EmptyMap)

\* compareCacheWithCurrentState
compareCacheWithCurrentState(cachedWorkspace, currentWorkspace) ==
    LET cachedCues  == indexCuesFromWorkspace(cachedWorkspace)
        currentCues == indexCuesFromWorkspace(currentWorkspace)
    IN  /\ Cardinality(DOMAIN cachedCues) = Cardinality(DOMAIN currentCues)
        /\ \A k \in DOMAIN cachedCues :
              /\ k \in DOMAIN currentCues
              /\ compareCueProperties(cachedCues[k], currentCues[k])


(***************************************************************************)
(* Three-way reconciliation engine                                         *)
(***************************************************************************)

NoFields == [f \in {} |-> ""]

NoFieldConflicts == [f \in {} |-> Nil]

\* the scope tree is absent (comparison.WorkspaceScope == nil)
NoScope ==
    [Scope |-> "none", Identifier |-> "", ConflictExists |-> FALSE,
     FieldChanges |-> NoFieldConflicts, ChildScopes |-> <<>>]

\* currentCue["uniqueID"].(string), "" when absent or not a string
uniqueIDOf(cue) == GetString(cue, "uniqueID")

\* the verdict when the key is absent from the current index
createResult ==
    [HasChanged |-> TRUE, Action |-> "create", Reason |-> "new cue",
     ExistingID |-> "", CueID |-> "", ModifiedFields |-> NoFields,
     FieldConflicts |-> NoFieldConflicts]

\* the merged difference set of the "both modified" branch
mergeDiffs(sourceCacheDiffs, cacheCurrentDiffs) ==
    LET keys == {"source_vs_cache_" \o f : f \in DOMAIN sourceCacheDiffs}
                \cup {"cache_vs_current_" \o f : f \in DOMAIN cacheCurrentDiffs}
    IN  [k \in keys |->
            IF \E f \in DOMAIN cacheCurrentDiffs : k = "cache_vs_current_" \o f
            THEN cacheCurrentDiffs[CHOOSE f \in DOMAIN cacheCurrentDiffs :
                                      k = "cache_vs_current_" \o f]
            ELSE sourceCacheDiffs[CHOOSE f \in DOMAIN sourceCacheDiffs :
                                      k = "source_vs_cache_" \o f]]

\* the mutant of threeWayVerdict that skips whenever the source matches the cache
threeWayVerdictSkipOnSourceMatch(sourceCue, cachedCue, currentCue) ==
    LET sourceCacheDiffs == compareCuePropertiesDetailed(sourceCue, cachedCue)
        id == uniqueIDOf(currentCue)
    IN  IF DOMAIN sourceCacheDiffs = {}
        THEN [createResult EXCEPT !.HasChanged = FALSE, !.Action = "skip",
                 !.Reason = "unchanged since last transmission",
                 !.ExistingID = id, !.CueID = id]
        ELSE [createResult EXCEPT !.Action = "update",
                 !.Reason = "source file modified",
                 !.ModifiedFields = sourceCacheDiffs,
                 !.ExistingID = id, !.CueID = id]

\* the mutant of threeWayVerdict that tests the source against the current cue
threeWayVerdictSourceVsCurrent(sourceCue, cachedCue, currentCue) ==
    LET sourceCacheDiffs  == compareCuePropertiesDetailed(sourceCue, currentCue)
        id == uniqueIDOf(currentCue)
    IN  IF DOMAIN sourceCacheDiffs = {}
        THEN [createResult EXCEPT !.HasChanged = FALSE, !.Action = "skip",
                 !.Reason = "unchanged since last transmission",
                 !.ExistingID = id, !.CueID = id]
        ELSE [createResult EXCEPT !.Action = "update",
                 !.Reason = "source file modified",
                 !.ModifiedFields = sourceCacheDiffs,
                 !.ExistingID = id, !.CueID = id]

\* the verdict for a key present in source, cache and current
threeWayVerdict(sourceCue, cachedCue, currentCue) ==
    LET sourceCacheDiffs  == compareCuePropertiesDetailed(sourceCue, cachedCue)
        cacheCurrentDiffs == compareCuePropertiesDetailed(cachedCue, currentCue)
        sourceMatchesCache  == DOMAIN sourceCacheDiffs = {}
        cacheMatchesCurrent == DOMAIN cacheCurrentDiffs = {}
        id == uniqueIDOf(currentCue)
        base == [createResult EXCEPT !.ExistingID = id, !.CueID = id]
    IN  IF sourceMatchesCache /\ cacheMatchesCurrent
        THEN [base EXCEPT !.HasChanged = FALSE, !.Action = "skip",
                 !.Reason = "unchanged since last transmission"]
        ELSE IF sourceMatchesCache /\ ~cacheMatchesCurrent
        THEN [base EXCEPT !.Action = "update",
                 !.Reason = "QLab modified externally, reverting to source",
                 !.ModifiedFields = cacheCurrentDiffs]
        ELSE IF ~sourceMatchesCache /\ cacheMatchesCurrent
        THEN [base EXCEPT !.Action = "update",
                 !.Reason = "source file modified",
                 !.ModifiedFields = sourceCacheDiffs]
        ELSE [base EXCEPT !.Action = "update",
                 !.Reason = "both source and QLab modified",
                 !.ModifiedFields = mergeDiffs(sourceCacheDiffs, cacheCurrentDiffs)]

\* the mutant of twoWayVerdict that updates whatever the comparison gives
twoWayVerdictAlwaysUpdate(sourceCue, currentCue) ==
    [createResult EXCEPT !.Action = "update",
        !.Reason = "differs from current QLab state",
        !.ExistingID = uniqueIDOf(currentCue), !.CueID = uniqueIDOf(currentCue),
        !.ModifiedFields = compareCuePropertiesDetailed(sourceCue, currentCue)]

\* the verdict for a key present in source and current but not in the cache
twoWayVerdict(sourceCue, currentCue) ==
    LET sourceCurrentDiffs == compareCuePropertiesDetailed(sourceCue, currentCue)
        id == uniqueIDOf(currentCue)
        base == [createResult EXCEPT !.ExistingID = id, !.CueID = id]
    IN  IF DOMAIN sourceCurrentDiffs = {}
        THEN [base EXCEPT !.HasChanged = FALSE, !.Action = "skip",
                 !.Reason = "matches current QLab state"]
        ELSE [base EXCEPT !.Action = "update",
                 !.Reason = "differs from current QLab state",
                 !.ModifiedFields = sourceCurrentDiffs]

\* the mutant of currentCuesIndex that falls back to the cache index
currentCuesIndexCacheFallback(hasQLabData, currentWorkspace, cachedWorkspace) ==
    IF hasQLabData THEN indexCuesFromWorkspace(currentWorkspace)
    ELSE indexCuesFromWorkspace(cachedWorkspace)

\* currentCues: the index of the live tree, an empty map when the query failed
currentCuesIndex(hasQLabData, currentWorkspace, cachedWorkspace) ==
    IF hasQLabData THEN indexCuesFromWorkspace(currentWorkspace) ELSE EmptyMap

\* cachedCues: the index of the cache, a nil map (read as empty) without one
cachedCuesIndex(hasCache, cachedWorkspace) ==
    IF hasCache THEN indexCuesFromWorkspace(cachedWorkspace) ELSE EmptyMap

\* the loop body of step 4: the verdict of one source key
cueVerdict(cueNumber, sourceCue, cachedCues, currentCues) ==
    IF cueNumber \in DOMAIN currentCues
    THEN (IF cueNumber \in DOMAIN cachedCues
          THEN threeWayVerdict(sourceCue, cachedCues[cueNumber], currentCues[cueNumber])
          ELSE twoWayVerdict(sourceCue, currentCues[cueNumber]))
    ELSE createResult

\* HasQLabData after the query and its lightweight fallback
queryHasQLabData(outcome, connected, fallbackOk) ==
    \/ outcome = "ok"
    \/ outcome = "timeout" /\ connected /\ fallbackOk

\* linkScopeDataToCueResults: the field changes of the cue scope named key
linkedFieldConflicts(scope, key, result) ==
    LET hits == {i \in 1..Len(scope.ChildScopes) :
                    /\ scope.ChildScopes[i].Scope = "cue"
                    /\ scope.ChildScopes[i].Identifier = key}
    IN  IF scope = NoScope \/ hits = {} THEN result
        ELSE [result EXCEPT !.FieldConflicts =
                 scope.ChildScopes[CHOOSE i \in hits : \A j \in hits : j <= i].FieldChanges]

\* PerformThreeWayComparison
PerformThreeWayComparison(source, hasCache, cached, hasQLabData, current, scopeCmp) ==
    LET sourceCues  == indexCuesFromWorkspace(source)
        cachedCues  == cachedCuesIndex(hasCache, cached)
        currentCues == currentCuesIndex(hasQLabData, current, cached)
        scope == IF hasCache /\ hasQLabData THEN scopeCmp ELSE NoScope
    IN  [CueResults |->
            [k \in DOMAIN sourceCues |->
                linkedFieldConflicts(scope, k,
                    cueVerdict(k, sourceCues[k], cachedCues, currentCues))],
         HasCache |-> hasCache,
         HasQLabData |-> hasQLabData,
         CacheMatchesQLab |->
            IF hasCache /\ hasQLabData
            THEN compareCacheWithCurrentState(cached, current)
            ELSE FALSE,
         QLabChosenCues |-> {},
         WorkspaceScope |-> scope]


(***************************************************************************)
(* Conflict identification and resolution                                  *)
(***************************************************************************)

\* isFieldConflict: a field whose remote value differs from the cached one
isFieldConflict(fc) ==
    ~comparePropertyValues(fc.FieldName, normalizeProperty(fc.QLabValue),
                           normalizeProperty(fc.CacheValue))

\* the mutant of scopeConflictType that looks at the remote side first
scopeConflictTypeRemoteFirst(fieldConflicts) ==
    LET hasSourceChanges ==
            \E f \in DOMAIN fieldConflicts :
                ~comparePropertyValues(fieldConflicts[f].FieldName,
                    normalizeProperty(fieldConflicts[f].SourceValue),
                    normalizeProperty(fieldConflicts[f].CacheValue))
        hasQLabChanges ==
            \E f \in DOMAIN fieldConflicts :
                ~comparePropertyValues(fieldConflicts[f].FieldName,
                    normalizeProperty(fieldConflicts[f].QLabValue),
                    normalizeProperty(fieldConflicts[f].CacheValue))
    IN  IF hasQLabChanges THEN "cache_stale"
        ELSE IF hasSourceChanges THEN "source_modified"
        ELSE ""

\* the conflict type identifyConflictsFromScope derives from the field values
scopeConflictType(fieldConflicts) ==
    LET hasSourceChanges ==
            \E f \in DOMAIN fieldConflicts :
                ~comparePropertyValues(fieldConflicts[f].FieldName,
                    normalizeProperty(fieldConflicts[f].SourceValue),
                    normalizeProperty(fieldConflicts[f].CacheValue))
        hasQLabChanges ==
            \E f \in DOMAIN fieldConflicts :
                ~comparePropertyValues(fieldConflicts[f].FieldName,
                    normalizeProperty(fieldConflicts[f].QLabValue),
                    normalizeProperty(fieldConflicts[f].CacheValue))
    IN  IF hasSourceChanges /\ hasQLabChanges THEN "three_way_divergence"
        ELSE IF hasQLabChanges THEN "cache_stale"
        ELSE IF hasSourceChanges THEN "source_modified"
        ELSE ""

RECURSIVE identifyConflictsFromScope(_)
\* identifyConflictsFromScope: the conflicts of a scope and of its child scopes
identifyConflictsFromScope(scope) ==
    LET properties == {f \in DOMAIN scope.FieldChanges :
                          isFieldConflict(scope.FieldChanges[f])}
        fieldConflicts == [f \in properties |-> scope.FieldChanges[f]]
        own == IF scope.ConflictExists /\ properties # {}
               THEN {[CueNumber |-> scope.Identifier,
                      ConflictType |-> scopeConflictType(fieldConflicts),
                      Scope |-> scope.Scope,
                      Properties |-> properties]}
               ELSE {}
    IN  own \cup UNION {identifyConflictsFromScope(scope.ChildScopes[i]) :
                           i \in 1..Len(scope.ChildScopes)}

\* the legacy cue-level loop of IdentifyConflicts
legacyConflicts(cueResults) ==
    {[CueNumber |-> k,
      ConflictType |->
          IF ContainsStr(cueResults[k].Reason, "QLab modified externally")
          THEN "cache_stale" ELSE "three_way_divergence",
      Scope |-> "cue",
      Properties |-> {}] :
     k \in {x \in DOMAIN cueResults :
              /\ cueResults[x].Action = "update"
              /\ \/ ContainsStr(cueResults[x].Reason, "QLab modified externally")
                 \/ ContainsStr(cueResults[x].Reason, "both source and QLab modified")}}

\* the conflicts IdentifyConflicts reports when none of its gates applies
ungatedConflicts(cmp) ==
    IF cmp.WorkspaceScope # NoScope
    THEN identifyConflictsFromScope(cmp.WorkspaceScope)
    ELSE legacyConflicts(cmp.CueResults)

\* the mutant of IdentifyConflicts that forgets the cache-matches-remote gate
IdentifyConflictsNoMatchGate(cmp) ==
    IF ~cmp.HasQLabData THEN {}
    ELSE IF ~cmp.HasCache THEN {}
    ELSE ungatedConflicts(cmp)

\* IdentifyConflicts
IdentifyConflicts(cmp) ==
    IF ~cmp.HasQLabData THEN {}
    ELSE IF ~cmp.HasCache THEN {}
    ELSE IF cmp.CacheMatchesQLab THEN {}
    ELSE ungatedConflicts(cmp)

ChoiceUseSource == "use_source"
ChoiceKeepQLab  == "keep_qlab"
ChoiceSkip      == "skip"

\* the mutant of applyChoice in which keep-remote leaves the action as it was
applyChoiceKeepQLabNoSkip(cmp, cueNumber, choice) ==
    IF cueNumber \notin DOMAIN cmp.CueResults THEN cmp
    ELSE CASE choice = ChoiceUseSource ->
                [cmp EXCEPT !.CueResults[cueNumber].Action = "update",
                            !.CueResults[cueNumber].Reason =
                                "User chose to use source file version"]
           [] choice = ChoiceKeepQLab ->
                [cmp EXCEPT !.CueResults[cueNumber].Reason =
                                "User chose to keep QLab version",
                            !.QLabChosenCues = @ \cup {cueNumber}]
           [] choice = ChoiceSkip ->
                [cmp EXCEPT !.CueResults[cueNumber].Action = "skip",
                            !.CueResults[cueNumber].Reason =
                                "User chose to skip this cue"]
           [] OTHER -> cmp

\* the loop body of ApplyResolutions: one resolution applied to the comparison
applyChoice(cmp, cueNumber, choice) ==
    IF cueNumber \notin DOMAIN cmp.CueResults THEN cmp
    ELSE CASE choice = ChoiceUseSource ->
                [cmp EXCEPT !.CueResults[cueNumber].Action = "update",
                            !.CueResults[cueNumber].Reason =
                                "User chose to use source file version"]
           [] choice = ChoiceKeepQLab ->
                [cmp EXCEPT !.CueResults[cueNumber].Action = "skip",
                            !.CueResults[cueNumber].Reason =
                                "User chose to keep QLab version",
                            !.QLabChosenCues = @ \cup {cueNumber}]
           [] choice = ChoiceSkip ->
                [cmp EXCEPT !.CueResults[cueNumber].Action = "skip",
                            !.CueResults[cueNumber].Reason =
                                "User chose to skip this cue"]
           [] OTHER -> cmp

RECURSIVE ApplyResolutions(_, _)
\* ApplyResolutions: every entry of the resolutions map is applied once
ApplyResolutions(cmp, resolutions) ==
    IF DOMAIN resolutions = {} THEN cmp
    ELSE LET k == CHOOSE x \in DOMAIN resolutions : TRUE
             rest == [x \in DOMAIN resolutions \ {k} |-> resolutions[x]]
         IN  ApplyResolutions(applyChoice(cmp, k, resolutions[k]), rest)


(***************************************************************************)
(* State                                                                   *)
(***************************************************************************)

VARIABLES
    \* reconciliation: the inputs of one PerformThreeWayComparison call
    sourceCueData,      \* the source tree handed in by the caller
    hasCacheFile,       \* a cache snapshot was found and loaded
    cachedWorkspace,    \* the loaded snapshot (nil without one)
    queryOutcome,       \* "ok", "timeout" or "error": queryCurrentWorkspaceState
    fallbackOk,         \* the lightweight fallback query succeeds
    currentWorkspace,   \* the tree the successful query returned (nil if none)
    scopeResult,        \* the result of the scope-based comparison
    \* reconciliation: the results
    comparison,         \* the ThreeWayComparison
    conflicts,          \* the conflicts IdentifyConflicts returned
    resolutions,        \* the resolutions map handed to ApplyResolutions
    resolvedFrom,       \* the comparison as it was before ApplyResolutions
    recPc,              \* "start", "compared", "identified", "resolved"
    resolver,           \* the InteractiveResolver and the ResolveConflicts call on it
    \* request/reply coordinator: fields of Workspace
    replyHandlers,      \* q.replyHandlers: key -> reply channel
    replyHandlersMux,   \* q.replyHandlersMux: "" or the thread that holds it
    requestCounter,     \* q.requestCounter
    consecutiveErrors,  \* q.consecutiveErrors
    wasConnected,       \* q.wasConnected
    maxRetries,         \* q.maxRetries
    timeout,            \* q.timeout
    onDisconnect,       \* a disconnect callback is registered
    \* request/reply coordinator: the flows and the network
    call,               \* per calling flow: the locals of sendWithRetry
    requests,           \* request messages on their way to the remote system
    replies,            \* reply messages on their way to the listener
    listener,           \* the inbound listener: idle or delivering to a channel
    chanCounter,        \* reply channels made so far (each attempt makes one)
    disconnectCalls,    \* invocations of the disconnect callback so far
    timeoutStreak,      \* request calls ended in a timeout since the last reply
    streakNotified,     \* callback invocations since the last reply
    lastReturn,         \* how the most recent request call returned
    closePc,            \* Close: "open", "clear", "unlock" or "closed"
    \* mutation driver: one transmitCueFileWithChangeDetection call
    driver,             \* the workspace maps, the pass mapping and the commands sent
    fileCues,           \* the top-level cues of the source file
    passResults,        \* comparison.CueResults handed to the driver
    cueCursor,          \* the top-level cue the loop is at (1-based)
    transmitPc,         \* "idle", "start", "processing", "done", "failed", "returned"
    conn,               \* the connection: what Init and the memoized queries left
    \* single calls of the library's functions
    fnArgs,             \* the call: the function's name and its arguments
    fnResult            \* what the call returned (<<>> before it returns)

recVars == <<sourceCueData, hasCacheFile, cachedWorkspace, queryOutcome, fallbackOk,
             currentWorkspace, scopeResult, comparison, conflicts, resolutions,
             resolvedFrom, recPc, resolver>>

oscVars == <<replyHandlers, requestCounter, consecutiveErrors, wasConnected,
             maxRetries, timeout, onDisconnect, call, requests, replies, listener,
             chanCounter, disconnectCalls, timeoutStreak, streakNotified, lastReturn,
             replyHandlersMux, closePc>>

drvVars == <<driver, fileCues, passResults, cueCursor, transmitPc, conn>>

vars == <<recVars, oscVars, drvVars, fnArgs, fnResult>>


(***************************************************************************)
(* Reconciliation: inputs                                                  *)
(***************************************************************************)

BaseCue == [number |-> Str("1"), name |-> Str("A"), type |-> Str("audio")]

SecondCue == [number |-> Str("2"), name |-> Str("Z"), type |-> Str("memo")]

\* an unnumbered cue: indexed under its positional key
PositionCue == [name |-> Str("P"), type |-> Str("Audio")]

Edit(cue, prop, value) == Put(cue, prop, value)

SourceCueChoices ==
    {BaseCue,
     Edit(BaseCue, "name", Str("B")),
     Edit(BaseCue, "type", Str("Audio")),
     Edit(BaseCue, "fileTarget", Str("media/a.wav")),
     Edit(BaseCue, "number", Flt(10))}

CachedCueChoices ==
    {BaseCue,
     Edit(BaseCue, "name", Str("B")),
     Edit(BaseCue, "fileTarget", Str("a.wav")),
     Edit(BaseCue, "armed", BoolV(TRUE))}

CurrentCueChoices ==
    {Edit(c, "uniqueID", Str("ID1")) :
        c \in {BaseCue,
               Edit(BaseCue, "name", Str("B")),
               Edit(BaseCue, "name", Str("C")),
               Edit(BaseCue, "fileTarget", Str("b.wav")),
               Edit(BaseCue, "duration", Flt(0))}}

\* source trees: {"cues": [...]}, flat, with a second cue, or with an unnumbered one
SourceTrees ==
    {CuesWorkspace(<<c>>) : c \in SourceCueChoices}
    \cup {CuesWorkspace(<<c, SecondCue>>) : c \in SourceCueChoices}
    \cup {NestedWorkspace(<<PositionCue, BaseCue>>)}

CueList(cs) == [name |-> Str("Main"), type |-> Str("Cue List"), cues |-> cs]

\* cache snapshots: {"data": [cue lists]}
CachedTrees ==
    {DataWorkspace(<<CueList(<<c>>)>>) : c \in CachedCueChoices}
    \cup {DataWorkspace(<<CueList(<<PositionCue, BaseCue>>)>>)}

\* live trees a successful query returns
CurrentTrees ==
    {DataWorkspace(<<CueList(<<c>>)>>) : c \in CurrentCueChoices}
    \cup {DataWorkspace(<<CueList(<<Edit(PositionCue, "uniqueID", Str("ID0")),
                                    Edit(BaseCue, "uniqueID", Str("ID1"))>>)>>),
          DataWorkspace(<<CueList(<<>>)>>)}

FieldConflict(field, source, cache, qlab) ==
    [FieldName |-> field, SourceValue |-> source, CacheValue |-> cache,
     QLabValue |-> qlab]

CueScope(identifier, exists, fieldChanges) ==
    [Scope |-> "cue", Identifier |-> identifier, ConflictExists |-> exists,
     FieldChanges |-> fieldChanges, ChildScopes |-> <<>>]

WorkspaceScopeOf(exists, children) ==
    [Scope |-> "workspace", Identifier |-> "workspace", ConflictExists |-> exists,
     FieldChanges |-> NoFieldConflicts, ChildScopes |-> children]

NameConflict == FieldConflict("name", Str("B"), Str("A"), Str("C"))

StaleName == FieldConflict("name", Str("A"), Str("A"), Str("C"))

SourceOnlyName == FieldConflict("name", Str("B"), Str("A"), Str("A"))

\* results of the scope-based comparison
ScopeChoices ==
    {WorkspaceScopeOf(FALSE, <<>>),
     WorkspaceScopeOf(TRUE, <<CueScope("1", TRUE, [f \in {"name"} |-> NameConflict])>>),
     WorkspaceScopeOf(TRUE, <<CueScope("1", TRUE, [f \in {"name"} |-> StaleName])>>),
     WorkspaceScopeOf(FALSE, <<CueScope("1", TRUE, [f \in {"name"} |-> SourceOnlyName])>>)}

\* the ways queryCurrentWorkspaceState and its fallback can end
QueryChoices ==
    {[outcome |-> "ok", fallbackOk |-> FALSE, current |-> t] : t \in CurrentTrees}
    \cup {[outcome |-> "timeout", fallbackOk |-> TRUE, current |-> t] : t \in CurrentTrees}
    \cup {[outcome |-> o, fallbackOk |-> FALSE, current |-> NilWorkspace] :
             o \in {"timeout", "error"}}

ChoiceValues == {ChoiceUseSource, ChoiceKeepQLab, ChoiceSkip, "undecided"}

ResolutionKeys == {"1", "2", "99"}

MaxResolutions == 2

ResolutionChoices ==
    UNION {[ks -> ChoiceValues] :
              ks \in {x \in SUBSET ResolutionKeys : Cardinality(x) <= MaxResolutions}}


(***************************************************************************)
(* Request/reply coordinator: data                                         *)
(***************************************************************************)

\* the flows that may call the workspace at once
Callers == {1, 2}

\* no reply channel
NoChan == 0

\* the locals of a flow that is not inside sendWithRetry; calls, attemptsMade,
\* replyGot, replyAttempt and result record its calls and the last one's
\* outcome, registered the reply channels its last call put in the registry
IdleCall ==
    [pc |-> "idle", address |-> "", attempt |-> 0, tmp |-> 0, requestID |-> 0,
     chan |-> NoChan, elapsed |-> 0, calls |-> 0, attemptsMade |-> 0,
     replyGot |-> "", replyAttempt |-> 0, result |-> "", registered |-> {}]

\* the listener between two messages; with a message, pc is "scan" (the
\* registry is locked), "unlock", or "deliver" (sending on the channel chan)
IdleListener ==
    [pc |-> "idle", address |-> "", chan |-> NoChan, answers |-> NoChan,
     payload |-> ""]

NoReturn == [kind |-> "none", connectedBefore |-> FALSE, notified |-> FALSE]

NoHandlers == [k \in {} |-> NoChan]

NoIDs == [k \in {} |-> ""]

\* the driver's state on a workspace tracking the cue numbers numbers; the
\* remote system answers the failAt-th command, and the commands whose
\* positions are in failing, with an error
NewDriver(numbers, force, failAt) ==
    [sent |-> <<>>, reply |-> "", NumberToID |-> NoIDs, CuesWithTargets |-> <<>>,
     cueNumbers |-> numbers, cueListNames |-> NoIDs, created |-> 0,
     err |-> "", id |-> "", ret |-> FALSE, failAt |-> failAt, failing |-> {},
     force |-> force,
     collisions |-> {}, visits |-> <<>>, cacheWritten |-> FALSE]

\* a memoized query result: nothing (a nil slice), or the data of the remote
\* system's version version, queried during obtained, <<"init", n>> for the
\* n-th Init and <<"pass", n>> for the n-th pass; inboxes is the number of
\* cue lists named "Cuejitsu Inbox" the data holds
NilData == [cached |-> FALSE, version |-> 0, inboxes |-> 0, obtained |-> <<"", 0>>]

QueryData(version, inboxes, during) ==
    [cached |-> TRUE, version |-> version, inboxes |-> inboxes, obtained |-> during]

\* the connect reply Init got; kind is "none" (an empty reply), "notString",
\* "unparsable" or "json"
ConnectReply(kind, status, data, error, workspaceId) ==
    [kind |-> kind, status |-> status, data |-> data, error |-> error,
     workspace_id |-> workspaceId]

\* NewWorkspace: the fields of Workspace that Init and the memoized queries
\* set.  remoteLists and remoteStages are the versions of the cue lists and
\* of the video stages at the remote system, remoteInboxes its inbox lists;
\* inits and passes count the calls of Init and of TransmitWorkspaceData,
\* served records every query result handed to a caller, got, err, initReply,
\* initErr and before hold what the last call saw and returned
NewConn ==
    [workspace_id |-> "", initialized |-> FALSE, inboxID |-> "",
     cueListsCache |-> NilData, videoStagesCache |-> NilData,
     remoteLists |-> 0, remoteStages |-> 0, remoteInboxes |-> 0,
     inits |-> 0, passes |-> 0, served |-> {}, got |-> NilData, err |-> "",
     initReply |-> ConnectReply("none", "", "", "", ""), initErr |-> "",
     before |-> [initialized |-> FALSE, workspace_id |-> ""]]

\* no mutation pass is being made
DriverIdle ==
    /\ driver = NewDriver(NoIDs, FALSE, 0)
    /\ fileCues = <<>>
    /\ passResults = EmptyMap
    /\ cueCursor = 0
    /\ transmitPc = "idle"
    /\ conn = NewConn

\* the coordinator of a workspace on which no request is being made
CoordinatorIdle ==
    /\ replyHandlers = NoHandlers
    /\ replyHandlersMux = ""
    /\ closePc = "open"
    /\ requestCounter = 0
    /\ consecutiveErrors = 0
    /\ maxRetries = 0
    /\ timeout = 10
    /\ onDisconnect = FALSE
    /\ call = [c \in Callers |-> IdleCall]
    /\ requests = {}
    /\ replies = {}
    /\ listener = IdleListener
    /\ chanCounter = 0
    /\ disconnectCalls = 0
    /\ timeoutStreak = 0
    /\ streakNotified = 0
    /\ lastReturn = NoReturn

(***************************************************************************)
(* Reconciliation: one pass                                                *)
(***************************************************************************)

NoComparison ==
    [CueResults |-> EmptyMap, HasCache |-> FALSE, HasQLabData |-> FALSE,
     CacheMatchesQLab |-> FALSE, QLabChosenCues |-> {}, WorkspaceScope |-> NoScope]

NoResolutions == [k \in {} |-> ""]

\* what ResolveConflicts returned: the decision map (nil with an error) and the error
ResolveReturn(decisions, err) == [Resolutions |-> decisions, err |-> err]

\* NewInteractiveResolver: an empty response channel of capacity 1; no call
\* of ResolveConflicts is under way (sent: the requests the current call
\* handed to requestSender)
NewInteractiveResolver ==
    [responseChannel |-> <<>>, pc |-> "idle", conflicts |-> {}, requestID |-> "",
     sent |-> <<>>, returned |-> ResolveReturn(NoResolutions, ""), calls |-> 0]

InitRec ==
    /\ sourceCueData \in SourceTrees
    /\ hasCacheFile \in BOOLEAN
    /\ cachedWorkspace \in (IF hasCacheFile THEN CachedTrees ELSE {NilWorkspace})
    /\ wasConnected \in BOOLEAN
    /\ \E q \in QueryChoices :
          /\ queryOutcome = q.outcome
          /\ fallbackOk = q.fallbackOk
          /\ currentWorkspace =
                IF queryHasQLabData(q.outcome, wasConnected, q.fallbackOk)
                THEN q.current ELSE NilWorkspace
    /\ scopeResult \in {NoScope} \cup ScopeChoices
    /\ comparison = NoComparison
    /\ conflicts = {}
    /\ resolutions = NoResolutions
    /\ resolvedFrom = NoComparison
    /\ resolver = NewInteractiveResolver
    /\ recPc = "start"
    /\ CoordinatorIdle
    /\ DriverIdle
    /\ fnArgs = <<>>
    /\ fnResult = <<>>

\* q.PerformThreeWayComparison(filePath, sourceCueData)
Compare ==
    /\ recPc = "start"
    /\ comparison' = PerformThreeWayComparison(sourceCueData, hasCacheFile,
                        cachedWorkspace,
                        queryHasQLabData(queryOutcome, wasConnected, fallbackOk),
                        currentWorkspace, scopeResult)
    /\ recPc' = "compared"
    /\ UNCHANGED <<sourceCueData, hasCacheFile, cachedWorkspace, queryOutcome,
                   fallbackOk, currentWorkspace, scopeResult, conflicts,
                   resolutions, resolvedFrom, resolver>>
    /\ UNCHANGED <<oscVars, drvVars, fnArgs, fnResult>>

\* q.IdentifyConflicts(comparison)
Identify ==
    /\ recPc = "compared"
    /\ conflicts' = IdentifyConflicts(comparison)
    /\ recPc' = "identified"
    /\ UNCHANGED <<sourceCueData, hasCacheFile, cachedWorkspace, queryOutcome,
                   fallbackOk, currentWorkspace, scopeResult, comparison,
                   resolutions, resolvedFrom, resolver>>
    /\ UNCHANGED <<oscVars, drvVars, fnArgs, fnResult>>

\* ApplyResolutions(comparison, resolutions)
Resolve ==
    /\ recPc = "identified"
    /\ \E r \in ResolutionChoices :
          /\ resolutions' = r
          /\ comparison' = ApplyResolutions(comparison, r)
    /\ resolvedFrom' = comparison
    /\ recPc' = "resolved"
    /\ UNCHANGED <<sourceCueData, hasCacheFile, cachedWorkspace, queryOutcome,
                   fallbackOk, currentWorkspace, scopeResult, conflicts, resolver>>
    /\ UNCHANGED <<oscVars, drvVars, fnArgs, fnResult>>

NextRec == Compare \/ Identify \/ Resolve

SpecRec == InitRec /\ [][NextRec]_vars

(***************************************************************************)
(* Conflict identification and resolution on comparisons built by hand     *)
(***************************************************************************)

ResultChoices ==
    {[createResult EXCEPT !.Action = a, !.Reason = r, !.HasChanged = (a # "skip")] :
        a \in {"update", "skip"},
        r \in {"QLab modified externally, reverting to source",
               "both source and QLab modified",
               "source file modified"}}
    \cup {createResult}

ComparisonKeys == {"1", "2"}

ComparisonChoices ==
    {[CueResults |-> cr, HasCache |-> hc, HasQLabData |-> hq,
      CacheMatchesQLab |-> m, QLabChosenCues |-> {}, WorkspaceScope |-> ws] :
        cr \in UNION {[ks -> ResultChoices] : ks \in SUBSET ComparisonKeys \ {{}}},
        hc \in BOOLEAN, hq \in BOOLEAN, m \in BOOLEAN,
        ws \in {NoScope,
                WorkspaceScopeOf(TRUE,
                    <<CueScope("1", TRUE, [f \in {"name"} |-> NameConflict])>>)}}

InitConf ==
    /\ sourceCueData = NilWorkspace
    /\ hasCacheFile = FALSE
    /\ cachedWorkspace = NilWorkspace
    /\ wasConnected = FALSE
    /\ queryOutcome = "ok"
    /\ fallbackOk = FALSE
    /\ currentWorkspace = NilWorkspace
    /\ scopeResult = NoScope
    /\ comparison \in ComparisonChoices
    /\ conflicts = {}
    /\ resolutions = NoResolutions
    /\ resolvedFrom = NoComparison
    /\ resolver = NewInteractiveResolver
    /\ recPc = "compared"
    /\ CoordinatorIdle
    /\ DriverIdle
    /\ fnArgs = <<>>
    /\ fnResult = <<>>

NextConf == Identify \/ Resolve

SpecConf == InitConf /\ [][NextConf]_vars

(* C1: for every identity key present in the source, cache and current     *)
(* indexes the comparison carries exactly one verdict, fixed by the two    *)
(* comparator results: no difference on either side is skip ("unchanged    *)
(* since last transmission"), only cache-vs-current differing is update    *)
(* ("QLab modified externally"), only source-vs-cache differing is update  *)
(* ("source file modified"), both differing is update ("both source and    *)
(* QLab modified").                                                        *)
C1_ThreeWayVerdicts ==
    (recPc \in {"compared", "identified"} /\ comparison.HasCache /\ comparison.HasQLabData) =>
        LET sourceCues  == indexCuesFromWorkspace(sourceCueData)
            cachedCues  == indexCuesFromWorkspace(cachedWorkspace)
            currentCues == indexCuesFromWorkspace(currentWorkspace)
        IN  \A k \in DOMAIN sourceCues \cap DOMAIN cachedCues \cap DOMAIN currentCues :
              LET sc == compareCueProperties(sourceCues[k], cachedCues[k])
                  cc == compareCueProperties(cachedCues[k], currentCues[k])
                  r  == comparison.CueResults[k]
              IN  /\ k \in DOMAIN comparison.CueResults
                  /\ (sc /\ cc) =>
                        /\ r.Action = "skip"
                        /\ r.Reason = "unchanged since last transmission"
                  /\ (sc /\ ~cc) =>
                        /\ r.Action = "update"
                        /\ ContainsStr(r.Reason, "QLab modified externally")
                  /\ (~sc /\ cc) =>
                        /\ r.Action = "update"
                        /\ r.Reason = "source file modified"
                  /\ (~sc /\ ~cc) =>
                        /\ r.Action = "update"
                        /\ r.Reason = "both source and QLab modified"

\* a pass in which a key of all three trees got the "both modified" verdict
C1_Witness ==
    /\ recPc = "compared"
    /\ "1" \in DOMAIN indexCuesFromWorkspace(sourceCueData)
                 \cap DOMAIN indexCuesFromWorkspace(cachedWorkspace)
                 \cap DOMAIN indexCuesFromWorkspace(currentWorkspace)
    /\ comparison.HasCache /\ comparison.HasQLabData
    /\ comparison.CueResults["1"].Reason = "both source and QLab modified"


\* the live query of the pass failed: neither the full nor the fallback query gave data
QueryFailed == ~queryHasQLabData(queryOutcome, wasConnected, fallbackOk)

C3_GatedConflicts ==
    (recPc = "identified"
       /\ (~comparison.HasQLabData \/ ~comparison.HasCache \/ comparison.CacheMatchesQLab))
    => conflicts = {}

\* a comparison whose results would give conflicts, silenced by the match gate alone
C3_Witness ==
    /\ recPc = "identified"
    /\ comparison.HasQLabData /\ comparison.HasCache /\ comparison.CacheMatchesQLab
    /\ legacyConflicts(comparison.CueResults) # {}
    /\ ungatedConflicts(comparison) # {}
    /\ conflicts = {}

(* C4: a resolution applied to an identity key that has a change result    *)
(* sets the result: keep-remote makes the action skip and adds the key to  *)
(* the chosen-remote set, use-source makes the action update, skip makes   *)
(* the action skip.                                                        *)
C4_ResolutionsApplied ==
    (recPc = "resolved") =>
        \A k \in DOMAIN resolutions \cap DOMAIN resolvedFrom.CueResults :
            /\ (resolutions[k] = ChoiceKeepQLab) =>
                  /\ comparison.CueResults[k].Action = "skip"
                  /\ k \in comparison.QLabChosenCues
            /\ (resolutions[k] = ChoiceUseSource) =>
                  comparison.CueResults[k].Action = "update"
            /\ (resolutions[k] = ChoiceSkip) =>
                  comparison.CueResults[k].Action = "skip"

\* keep-remote applied to a key whose verdict was update, use-source to another
C4_Witness ==
    /\ recPc = "resolved"
    /\ {"1", "2"} \subseteq DOMAIN resolvedFrom.CueResults
    /\ DOMAIN resolutions = {"1", "2"}
    /\ resolutions["1"] = ChoiceKeepQLab
    /\ resolutions["2"] = ChoiceUseSource
    /\ resolvedFrom.CueResults["1"].Action = "update"
    /\ comparison.CueResults["1"].Action = "skip"
    /\ comparison.CueResults["2"].Action = "update"
    /\ "1" \in comparison.QLabChosenCues


\* the indexed current tree equals the indexed source tree after
\* normalization: the same keys, and no compared field differs under a key
CurrentEqualsSource ==
    /\ recPc \in {"compared", "identified"}
    /\ comparison.HasQLabData
    /\ LET sourceCues  == indexCuesFromWorkspace(sourceCueData)
           currentCues == indexCuesFromWorkspace(currentWorkspace)
       IN  /\ DOMAIN sourceCues = DOMAIN currentCues
           /\ \A k \in DOMAIN sourceCues :
                 /\ compareCueProperties(sourceCues[k], currentCues[k])
                 /\ compareCueProperties(currentCues[k], sourceCues[k])

\* every source key has action skip and an empty field-diff map
AllSourceKeysSkipped ==
    \A k \in DOMAIN indexCuesFromWorkspace(sourceCueData) :
        /\ k \in DOMAIN comparison.CueResults
        /\ comparison.CueResults[k].Action = "skip"
        /\ ~comparison.CueResults[k].HasChanged
        /\ comparison.CueResults[k].ModifiedFields = NoFields

\* the cache holds nothing that differs from the two trees: there is no
\* cache, or each source key is absent from it or its entry has no field
\* differing from the source's and none differing from the current tree's
CacheAgreesWithBoth ==
    hasCacheFile =>
        LET sourceCues  == indexCuesFromWorkspace(sourceCueData)
            cachedCues  == indexCuesFromWorkspace(cachedWorkspace)
            currentCues == indexCuesFromWorkspace(currentWorkspace)
        IN  \A k \in DOMAIN sourceCues \cap DOMAIN cachedCues :
                /\ compareCueProperties(sourceCues[k], cachedCues[k])
                /\ compareCueProperties(cachedCues[k], currentCues[k])

\* C13 as stated: whenever the indexed current tree equals the indexed
\* source tree after normalization, every source key gets action skip with
\* an empty field-diff map, whatever the cache snapshot holds.
C13_EqualTreesSkipAnyCache == CurrentEqualsSource => AllSourceKeysSkipped

\* C13: whenever the indexed current tree equals the indexed source tree
\* after normalization and the cache snapshot, if there is one, has under a
\* source key no entry or an entry equal after normalization to the source's
\* and to the current tree's, every source key gets action skip with an
\* empty field-diff map.
C13_EqualTreesSkip ==
    (CurrentEqualsSource /\ CacheAgreesWithBoth) => AllSourceKeysSkipped

\* equal trees were compared with a cache that holds the same cue
C13_Witness ==
    /\ CurrentEqualsSource
    /\ CacheAgreesWithBoth
    /\ hasCacheFile
    /\ "1" \in DOMAIN indexCuesFromWorkspace(sourceCueData)
                 \cap DOMAIN indexCuesFromWorkspace(cachedWorkspace)
    /\ comparison.CueResults["1"].Reason = "unchanged since last transmission"

\* equal trees were compared without a cache
C13_WitnessNoCache ==
    /\ CurrentEqualsSource
    /\ ~hasCacheFile
    /\ sourceCueData # NilWorkspace
    /\ \E k \in DOMAIN comparison.CueResults :
          comparison.CueResults[k].Reason = "matches current QLab state"


\* the keys the engine classified skip
SkippedKeys ==
    {k \in DOMAIN comparison.CueResults : comparison.CueResults[k].Action = "skip"}

(* C29: whenever the engine classifies a cue as skip, the field comparator *)
(* reports no difference between the source cue and the current remote cue *)
(* of that key.                                                            *)
C29_SkipMeansSourceEqualsCurrent ==
    recPc \in {"compared", "identified"} =>
        \A k \in SkippedKeys :
            /\ k \in DOMAIN indexCuesFromWorkspace(sourceCueData)
            /\ k \in DOMAIN indexCuesFromWorkspace(currentWorkspace)
            /\ compareCueProperties(indexCuesFromWorkspace(sourceCueData)[k],
                                    indexCuesFromWorkspace(currentWorkspace)[k])

\* C29 as the engine computes it: a skipped key has no difference between
\* source and cache and none between cache and current, or, without a cache
\* entry, none between source and current
C29_SkipMeansNoStepDiffers ==
    recPc \in {"compared", "identified"} =>
        \A k \in SkippedKeys :
            /\ comparison.HasQLabData
            /\ k \in DOMAIN indexCuesFromWorkspace(sourceCueData)
            /\ k \in DOMAIN indexCuesFromWorkspace(currentWorkspace)
            /\ IF k \in DOMAIN cachedCuesIndex(hasCacheFile, cachedWorkspace)
               THEN /\ compareCueProperties(
                          indexCuesFromWorkspace(sourceCueData)[k],
                          indexCuesFromWorkspace(cachedWorkspace)[k])
                    /\ compareCueProperties(
                          indexCuesFromWorkspace(cachedWorkspace)[k],
                          indexCuesFromWorkspace(currentWorkspace)[k])
               ELSE compareCueProperties(
                        indexCuesFromWorkspace(sourceCueData)[k],
                        indexCuesFromWorkspace(currentWorkspace)[k])

\* a pass that skipped a key of all three trees
C29_Witness ==
    /\ recPc = "compared"
    /\ hasCacheFile
    /\ "1" \in SkippedKeys
    /\ "1" \in DOMAIN indexCuesFromWorkspace(cachedWorkspace)
    /\ comparison.CueResults["1"].Reason = "unchanged since last transmission"

(***************************************************************************)
(* Request/reply coordinator: sendWithRetry, ListenForReply, the listener  *)
(* (the persistent listener is running: q.updateServer is set)             *)
(***************************************************************************)

\* BuildReplyAddress
BuildReplyAddress(requestAddress) == "/reply" \o requestAddress

\* fmt.Sprintf("%s#%d", replyAddress, requestID)
uniqueReplyAddress(address, requestID) ==
    BuildReplyAddress(address) \o "#" \o ToString(requestID)

RECURSIVE BeforeHash(_, _)
\* strings.Split(handlerKey, "#")[0], scanning from position i
BeforeHash(handlerKey, i) ==
    IF i > Len(handlerKey) \/ SubSeq(handlerKey, i, i) = "#"
    THEN SubSeq(handlerKey, 1, i - 1)
    ELSE BeforeHash(handlerKey, i + 1)

\* delete(m, k) on a Go map
Delete(m, k) == [x \in DOMAIN m \ {k} |-> m[x]]

DefaultTimeout == 10

\* the seconds one attempt waits: a timeout of 0 means the default
effectiveTimeout(seconds) == IF seconds = 0 THEN DefaultTimeout ELSE seconds

TimeoutPayload == "{\"status\": \"error\", \"error\": \"timeout waiting for reply from QLab\"}"

OkReply == "{\"status\": \"ok\"}"

ErrorReply == "{\"status\": \"error\"}"

DisconnectThreshold == 2

\* the mutant of loopContinues that runs the loop once more
loopContinuesOnceMore(attempt, retries) == attempt <= retries + 1

\* the loop condition of sendWithRetry
loopContinues(attempt, retries) == attempt <= retries

\* the mutant of shouldNotify that waits for one more failed call
shouldNotifyLate(connected, errors, registered) ==
    connected /\ errors >= DisconnectThreshold + 1 /\ registered

\* the disconnect callback is due: connected, two failures in a row, a callback
shouldNotify(connected, errors, registered) ==
    connected /\ errors >= DisconnectThreshold /\ registered

\* the mutant of afterReply that retries when the reply carries an error status
afterReplyRetryOnError(rec, payload) ==
    IF payload = ErrorReply /\ rec.attempt < maxRetries
    THEN [rec EXCEPT !.pc = "loop", !.attempt = @ + 1, !.chan = NoChan,
                     !.replyGot = payload, !.replyAttempt = rec.attemptsMade]
    ELSE [IdleCall EXCEPT !.result = payload, !.calls = rec.calls,
                          !.attemptsMade = rec.attemptsMade,
                          !.replyGot = payload, !.replyAttempt = rec.attemptsMade,
                          !.registered = rec.registered]

\* the reply branch of the select: the call returns what the listener handed over
afterReply(rec, payload) ==
    [IdleCall EXCEPT !.result = payload, !.calls = rec.calls,
                     !.attemptsMade = rec.attemptsMade,
                     !.replyGot = payload, !.replyAttempt = rec.attemptsMade,
                     !.registered = rec.registered]

\* a flow calls Send / SendWithArgs: sendWithRetry starts with attempt 0
StartCall(c, limit, addresses) ==
    /\ call[c].pc = "idle"
    /\ call[c].calls < limit
    /\ \E a \in addresses :
          call' = [call EXCEPT ![c] =
                      [IdleCall EXCEPT !.pc = "loop", !.address = a,
                                       !.calls = call[c].calls + 1]]
    /\ UNCHANGED <<replyHandlers, requestCounter, consecutiveErrors, wasConnected,
                   maxRetries, timeout, onDisconnect, requests, replies, listener,
                   chanCounter, disconnectCalls, timeoutStreak, streakNotified,
                   lastReturn>>
    /\ UNCHANGED <<replyHandlersMux, closePc>>
    /\ UNCHANGED <<recVars, drvVars, fnArgs, fnResult>>

\* the loop test passes: the next attempt begins
BeginAttempt(c) ==
    /\ call[c].pc = "loop"
    /\ loopContinues(call[c].attempt, maxRetries)
    /\ call' = [call EXCEPT ![c].pc = "incRead", ![c].attemptsMade = @ + 1]
    /\ UNCHANGED <<replyHandlers, requestCounter, consecutiveErrors, wasConnected,
                   maxRetries, timeout, onDisconnect, requests, replies, listener,
                   chanCounter, disconnectCalls, timeoutStreak, streakNotified,
                   lastReturn>>
    /\ UNCHANGED <<replyHandlersMux, closePc>>
    /\ UNCHANGED <<recVars, drvVars, fnArgs, fnResult>>

\* q.requestCounter++ ; requestID := q.requestCounter  (three unsynchronised steps)
NextRequestID(c) ==
    /\ call[c].pc \in {"incRead", "incWrite", "idLoad"}
    /\ CASE call[c].pc = "incRead" ->
              /\ call' = [call EXCEPT ![c].tmp = requestCounter, ![c].pc = "incWrite"]
              /\ UNCHANGED requestCounter
         [] call[c].pc = "incWrite" ->
              /\ requestCounter' = call[c].tmp + 1
              /\ call' = [call EXCEPT ![c].pc = "idLoad"]
         [] call[c].pc = "idLoad" ->
              /\ call' = [call EXCEPT ![c].requestID = requestCounter,
                                      ![c].pc = "listen"]
              /\ UNCHANGED requestCounter
    /\ UNCHANGED <<replyHandlers, consecutiveErrors, wasConnected,
                   maxRetries, timeout, onDisconnect, requests, replies, listener,
                   chanCounter, disconnectCalls, timeoutStreak, streakNotified,
                   lastReturn>>
    /\ UNCHANGED <<replyHandlersMux, closePc>>
    /\ UNCHANGED <<recVars, drvVars, fnArgs, fnResult>>

\* the mutant of ListenForReply that stores the channel without the lock
ListenForReplyUnlocked(c) ==
    /\ call[c].pc \in {"listen", "register"}
    /\ CASE call[c].pc = "listen" ->
              /\ chanCounter' = chanCounter + 1
              /\ call' = [call EXCEPT ![c].chan = chanCounter + 1, ![c].pc = "register"]
              /\ UNCHANGED replyHandlers
         [] call[c].pc = "register" ->
              /\ replyHandlers' = Put(replyHandlers,
                                      uniqueReplyAddress(call[c].address,
                                                         call[c].requestID),
                                      call[c].chan)
              /\ call' = [call EXCEPT ![c].pc = "send",
                                      ![c].registered = @ \cup {call[c].chan}]
              /\ UNCHANGED chanCounter
    /\ UNCHANGED <<requestCounter, consecutiveErrors, wasConnected,
                   maxRetries, timeout, onDisconnect, requests, replies, listener,
                   disconnectCalls, timeoutStreak, streakNotified, lastReturn>>
    /\ UNCHANGED <<replyHandlersMux, closePc>>
    /\ UNCHANGED <<recVars, drvVars, fnArgs, fnResult>>

\* reply := make(chan []any); q.ListenForReply(address, reply, requestID):
\* Lock, the store of the channel under the key, Unlock
ListenForReply(c) ==
    /\ call[c].pc \in {"listen", "register", "registered"}
    /\ CASE call[c].pc = "listen" ->
              /\ replyHandlersMux = ""
              /\ replyHandlersMux' = ToString(c)
              /\ chanCounter' = chanCounter + 1
              /\ call' = [call EXCEPT ![c].chan = chanCounter + 1, ![c].pc = "register"]
              /\ UNCHANGED replyHandlers
         [] call[c].pc = "register" ->
              /\ replyHandlers' = Put(replyHandlers,
                                      uniqueReplyAddress(call[c].address,
                                                         call[c].requestID),
                                      call[c].chan)
              /\ call' = [call EXCEPT ![c].pc = "registered",
                                      ![c].registered = @ \cup {call[c].chan}]
              /\ UNCHANGED <<replyHandlersMux, chanCounter>>
         [] call[c].pc = "registered" ->
              /\ replyHandlersMux' = ""
              /\ call' = [call EXCEPT ![c].pc = "send"]
              /\ UNCHANGED <<replyHandlers, chanCounter>>
    /\ UNCHANGED <<requestCounter, consecutiveErrors, wasConnected,
                   maxRetries, timeout, onDisconnect, requests, replies, listener,
                   disconnectCalls, timeoutStreak, streakNotified, lastReturn>>
    /\ UNCHANGED closePc
    /\ UNCHANGED <<recVars, drvVars, fnArgs, fnResult>>


MaxInFlight == 1

\* q.client.Send(msg) succeeds: the request is on its way (or lost by the network
\* when MaxInFlight messages already are) and the flow waits in the select
SendMessage(c) ==
    /\ call[c].pc = "send"
    /\ requests' = IF Cardinality(requests) + Cardinality(replies) < MaxInFlight
                   THEN requests \cup {[address |-> call[c].address,
                                        chan |-> call[c].chan]}
                   ELSE requests
    /\ call' = [call EXCEPT ![c].pc = "wait", ![c].elapsed = 0]
    /\ UNCHANGED <<replyHandlers, requestCounter, consecutiveErrors, wasConnected,
                   maxRetries, timeout, onDisconnect, replies, listener,
                   chanCounter, disconnectCalls, timeoutStreak, streakNotified,
                   lastReturn>>
    /\ UNCHANGED <<replyHandlersMux, closePc>>
    /\ UNCHANGED <<recVars, drvVars, fnArgs, fnResult>>

\* q.client.Send(msg) fails: continue, the handler stays registered
SendFails(c) ==
    /\ call[c].pc = "send"
    /\ call' = [call EXCEPT ![c].pc = "loop", ![c].attempt = @ + 1, ![c].chan = NoChan]
    /\ UNCHANGED <<replyHandlers, requestCounter, consecutiveErrors, wasConnected,
                   maxRetries, timeout, onDisconnect, requests, replies, listener,
                   chanCounter, disconnectCalls, timeoutStreak, streakNotified,
                   lastReturn>>
    /\ UNCHANGED <<replyHandlersMux, closePc>>
    /\ UNCHANGED <<recVars, drvVars, fnArgs, fnResult>>

\* time.After(timeout): the seconds of the timeout pass for a flow in the select
TimerExpires(c) ==
    /\ call[c].pc = "wait"
    /\ call[c].elapsed < effectiveTimeout(timeout)
    /\ call' = [call EXCEPT ![c].elapsed = effectiveTimeout(timeout)]
    /\ UNCHANGED <<replyHandlers, requestCounter, consecutiveErrors, wasConnected,
                   maxRetries, timeout, onDisconnect, requests, replies, listener,
                   chanCounter, disconnectCalls, timeoutStreak, streakNotified,
                   lastReturn>>
    /\ UNCHANGED <<replyHandlersMux, closePc>>
    /\ UNCHANGED <<recVars, drvVars, fnArgs, fnResult>>

\* case result := <-reply: the listener hands its message over and the call returns
ReceiveReply(c) ==
    /\ call[c].pc = "wait"
    /\ listener.pc = "deliver"
    /\ listener.chan = call[c].chan
    /\ call' = [call EXCEPT ![c] = afterReply(call[c], listener.payload)]
    /\ listener' = IdleListener
    /\ consecutiveErrors' = 0
    /\ wasConnected' = TRUE
    /\ timeoutStreak' = 0
    /\ streakNotified' = 0
    /\ lastReturn' = [kind |-> "reply", connectedBefore |-> wasConnected,
                      notified |-> FALSE]
    /\ UNCHANGED <<replyHandlers, requestCounter, maxRetries, timeout, onDisconnect,
                   requests, replies, chanCounter, disconnectCalls>>
    /\ UNCHANGED <<replyHandlersMux, closePc>>
    /\ UNCHANGED <<recVars, drvVars, fnArgs, fnResult>>

\* the call gives up: the failure counter, the disconnect callback, the timeout payload
FailCall(c) ==
    LET notify == shouldNotify(wasConnected, consecutiveErrors + 1, onDisconnect)
    IN  /\ consecutiveErrors' = consecutiveErrors + 1
        /\ disconnectCalls' = IF notify THEN disconnectCalls + 1 ELSE disconnectCalls
        /\ wasConnected' = IF notify THEN FALSE ELSE wasConnected
        /\ timeoutStreak' = timeoutStreak + 1
        /\ streakNotified' = IF notify THEN streakNotified + 1 ELSE streakNotified
        /\ lastReturn' = [kind |-> "timeout", connectedBefore |-> wasConnected,
                          notified |-> notify]
        /\ call' = [call EXCEPT ![c] =
                        [IdleCall EXCEPT !.result = TimeoutPayload,
                                         !.calls = call[c].calls,
                                         !.attemptsMade = call[c].attemptsMade,
                                         !.replyGot = call[c].replyGot,
                                         !.replyAttempt = call[c].replyAttempt,
                                         !.registered = call[c].registered]]

\* case <-time.After(timeout): Lock, the handler is removed, Unlock, then
\* retry or give up
Timeout(c) ==
    /\ call[c].pc \in {"wait", "remove", "removed"}
    /\ CASE call[c].pc = "wait" ->
              /\ call[c].elapsed = effectiveTimeout(timeout)
              /\ replyHandlersMux = ""
              /\ replyHandlersMux' = ToString(c)
              /\ call' = [call EXCEPT ![c].pc = "remove"]
              /\ UNCHANGED <<replyHandlers, consecutiveErrors, wasConnected,
                             disconnectCalls, timeoutStreak, streakNotified,
                             lastReturn>>
         [] call[c].pc = "remove" ->
              /\ replyHandlers' = Delete(replyHandlers,
                                         uniqueReplyAddress(call[c].address,
                                                            call[c].requestID))
              /\ call' = [call EXCEPT ![c].pc = "removed"]
              /\ UNCHANGED <<replyHandlersMux, consecutiveErrors, wasConnected,
                             disconnectCalls, timeoutStreak, streakNotified,
                             lastReturn>>
         [] call[c].pc = "removed" ->
              /\ replyHandlersMux' = ""
              /\ UNCHANGED replyHandlers
              /\ IF call[c].attempt < maxRetries
                 THEN /\ call' = [call EXCEPT ![c].pc = "loop", ![c].attempt = @ + 1,
                                              ![c].chan = NoChan]
                      /\ UNCHANGED <<consecutiveErrors, wasConnected, disconnectCalls,
                                     timeoutStreak, streakNotified, lastReturn>>
                 ELSE FailCall(c)
    /\ UNCHANGED <<requestCounter, maxRetries, timeout, onDisconnect, requests,
                   replies, listener, chanCounter>>
    /\ UNCHANGED closePc
    /\ UNCHANGED <<recVars, drvVars, fnArgs, fnResult>>

\* the loop ends without a reply (every attempt failed to send)
ReturnExhausted(c) ==
    /\ call[c].pc = "loop"
    /\ ~loopContinues(call[c].attempt, maxRetries)
    /\ FailCall(c)
    /\ UNCHANGED <<replyHandlers, requestCounter, maxRetries, timeout, onDisconnect,
                   requests, replies, listener, chanCounter>>
    /\ UNCHANGED <<replyHandlersMux, closePc>>
    /\ UNCHANGED <<recVars, drvVars, fnArgs, fnResult>>

ReplyPayloads == {OkReply, ErrorReply}

\* the remote system answers a request on the reply address of its address
RemoteReply ==
    /\ \E r \in requests, p \in ReplyPayloads :
          /\ requests' = requests \ {r}
          /\ replies' = replies \cup {[address |-> BuildReplyAddress(r.address),
                                       answers |-> r.chan, payload |-> p]}
    /\ UNCHANGED <<replyHandlers, requestCounter, consecutiveErrors, wasConnected,
                   maxRetries, timeout, onDisconnect, call, listener,
                   chanCounter, disconnectCalls, timeoutStreak, streakNotified,
                   lastReturn>>
    /\ UNCHANGED <<replyHandlersMux, closePc>>
    /\ UNCHANGED <<recVars, drvVars, fnArgs, fnResult>>

\* the handler keys whose base address (before the #) is the address of a message
matchingHandlers(address) ==
    {k \in DOMAIN replyHandlers : BeforeHash(k, 1) = address}

\* the listener takes a "/reply" message: Lock, the first matching handler
\* the map iteration meets is removed and becomes the channel to send on,
\* Unlock, and the send on the channel begins; no match, no send
Dispatch ==
    /\ listener.pc \in {"idle", "scan", "unlock"}
    /\ CASE listener.pc = "idle" ->
              /\ replyHandlersMux = ""
              /\ replyHandlersMux' = "listener"
              /\ \E m \in replies :
                    /\ HasPrefix(m.address, "/reply")
                    /\ replies' = replies \ {m}
                    /\ listener' = [IdleListener EXCEPT !.pc = "scan",
                                                        !.address = m.address,
                                                        !.answers = m.answers,
                                                        !.payload = m.payload]
              /\ UNCHANGED replyHandlers
         [] listener.pc = "scan" ->
              /\ IF matchingHandlers(listener.address) = {}
                 THEN /\ listener' = [listener EXCEPT !.pc = "unlock"]
                      /\ UNCHANGED replyHandlers
                 ELSE \E k \in matchingHandlers(listener.address) :
                         /\ replyHandlers' = Delete(replyHandlers, k)
                         /\ listener' = [listener EXCEPT !.pc = "unlock",
                                                         !.chan = replyHandlers[k]]
              /\ UNCHANGED <<replies, replyHandlersMux>>
         [] listener.pc = "unlock" ->
              /\ replyHandlersMux' = ""
              /\ listener' = IF listener.chan = NoChan THEN IdleListener
                             ELSE [listener EXCEPT !.pc = "deliver"]
              /\ UNCHANGED <<replies, replyHandlers>>
    /\ UNCHANGED <<requestCounter, consecutiveErrors, wasConnected,
                   maxRetries, timeout, onDisconnect, call, requests,
                   chanCounter, disconnectCalls, timeoutStreak, streakNotified,
                   lastReturn>>
    /\ UNCHANGED closePc
    /\ UNCHANGED <<recVars, drvVars, fnArgs, fnResult>>

\* Close, the part that concerns the registry: Lock, the map is replaced by an
\* empty one, Unlock
Close ==
    /\ closePc \in {"open", "clear", "unlock"}
    /\ CASE closePc = "open" ->
              /\ replyHandlersMux = ""
              /\ replyHandlersMux' = "close"
              /\ closePc' = "clear"
              /\ UNCHANGED replyHandlers
         [] closePc = "clear" ->
              /\ replyHandlers' = NoHandlers
              /\ closePc' = "unlock"
              /\ UNCHANGED replyHandlersMux
         [] closePc = "unlock" ->
              /\ replyHandlersMux' = ""
              /\ closePc' = "closed"
              /\ UNCHANGED replyHandlers
    /\ UNCHANGED <<requestCounter, consecutiveErrors, wasConnected,
                   maxRetries, timeout, onDisconnect, call, requests, replies,
                   listener, chanCounter, disconnectCalls, timeoutStreak,
                   streakNotified, lastReturn>>
    /\ UNCHANGED <<recVars, drvVars, fnArgs, fnResult>>

\* the reconciliation variables of a state in which no pass is running
RecIdle ==
    /\ sourceCueData = NilWorkspace
    /\ hasCacheFile = FALSE
    /\ cachedWorkspace = NilWorkspace
    /\ queryOutcome = "ok"
    /\ fallbackOk = FALSE
    /\ currentWorkspace = NilWorkspace
    /\ scopeResult = NoScope
    /\ comparison = NoComparison
    /\ conflicts = {}
    /\ resolutions = NoResolutions
    /\ resolvedFrom = NoComparison
    /\ resolver = NewInteractiveResolver
    /\ recPc = "idle"

RetryChoices == {0, 1}

TimeoutChoices == {0, 1}

MaxCalls == 2

\* a new workspace; SetMaxRetries, SetTimeout and OnDisconnect may have been called
InitSeq ==
    /\ RecIdle
    /\ DriverIdle
    /\ fnArgs = <<>>
    /\ fnResult = <<>>
    /\ replyHandlers = NoHandlers
    /\ replyHandlersMux = ""
    /\ closePc = "open"
    /\ requestCounter = 0
    /\ consecutiveErrors = 0
    /\ wasConnected \in BOOLEAN
    /\ maxRetries \in RetryChoices
    /\ timeout \in TimeoutChoices
    /\ onDisconnect \in BOOLEAN
    /\ call = [c \in Callers |-> IdleCall]
    /\ requests = {}
    /\ replies = {}
    /\ listener = IdleListener
    /\ chanCounter = 0
    /\ disconnectCalls = 0
    /\ timeoutStreak = 0
    /\ streakNotified = 0
    /\ lastReturn = NoReturn

\* the steps of flow c
FlowStep(c) ==
    \/ BeginAttempt(c)
    \/ NextRequestID(c)
    \/ ListenForReply(c)
    \/ SendMessage(c)
    \/ SendFails(c)
    \/ TimerExpires(c)
    \/ ReceiveReply(c)
    \/ Timeout(c)
    \/ ReturnExhausted(c)

\* one flow makes its request calls one after the other
NextSeq ==
    \/ StartCall(1, MaxCalls, {"/cueLists"})
    \/ FlowStep(1)
    \/ RemoteReply
    \/ Dispatch

SpecSeq == InitSeq /\ [][NextSeq]_vars


Addresses == {"/cueLists", "/cue/1/name"}

CallsPerFlow == 1

\* a connected workspace with a disconnect callback, used by several flows at once
InitOsc ==
    /\ RecIdle
    /\ DriverIdle
    /\ fnArgs = <<>>
    /\ fnResult = <<>>
    /\ replyHandlers = NoHandlers
    /\ replyHandlersMux = ""
    /\ closePc = "open"
    /\ requestCounter = 0
    /\ consecutiveErrors = 0
    /\ wasConnected = TRUE
    /\ maxRetries = 0
    /\ timeout = 1
    /\ onDisconnect = TRUE
    /\ call = [c \in Callers |-> IdleCall]
    /\ requests = {}
    /\ replies = {}
    /\ listener = IdleListener
    /\ chanCounter = 0
    /\ disconnectCalls = 0
    /\ timeoutStreak = 0
    /\ streakNotified = 0
    /\ lastReturn = NoReturn

\* several flows make request calls concurrently, and the workspace may be
\* closed meanwhile
NextOsc ==
    \/ \E c \in Callers : StartCall(c, CallsPerFlow, Addresses) \/ FlowStep(c)
    \/ RemoteReply
    \/ Dispatch
    \/ Close

SpecOsc == InitOsc /\ [][NextOsc]_vars

\* the flow that waits on reply channel ch, if one does
waiterOf(ch) == {c \in Callers : call[c].pc = "wait" /\ call[c].chan = ch}

(* C5: when several requests are outstanding at the same time, every reply *)
(* is delivered to the waiter of the request it answers and never to the   *)
(* waiter of a different request, also when two outstanding requests went  *)
(* to the same address: whenever the listener holds a reply for the        *)
(* channel of a waiting flow while the request that reply answers is       *)
(* waiting too, the channel is the one of the request the reply answers.   *)
C5_RepliesReachTheirWaiter ==
    (/\ listener.chan # NoChan
     /\ waiterOf(listener.chan) # {}
     /\ waiterOf(listener.answers) # {})
        => listener.chan = listener.answers


\* flow c is back from a request call that ended without a reply
ReturnedWithoutReply(c) ==
    call[c].pc = "idle" /\ call[c].calls > 0 /\ call[c].replyGot = ""

(* C6: a request that gets no reply is attempted at most maxRetries+1      *)
(* times (exactly once with 0 retries and a send that goes out), each      *)
(* attempt waits at most the configured timeout (the default of 10 s when  *)
(* the timeout is 0), and the call returns the timeout error payload as an *)
(* ordinary value.                                                         *)
C6_BoundedAttempts ==
    \A c \in Callers :
        /\ call[c].attemptsMade <= maxRetries + 1
        /\ call[c].attempt <= maxRetries + 1
        /\ call[c].elapsed <= (IF timeout = 0 THEN 10 ELSE timeout)
        /\ ReturnedWithoutReply(c) =>
              /\ call[c].result = TimeoutPayload
              /\ call[c].attemptsMade >= 1
              /\ (maxRetries = 0) => call[c].attemptsMade = 1

\* a call that used every attempt of a retry bound of 1 and returned the payload
C6_Witness ==
    /\ maxRetries = 1
    /\ timeout = 0
    /\ ReturnedWithoutReply(1)
    /\ call[1].attemptsMade = 2
    /\ call[1].result = TimeoutPayload
    /\ lastReturn.kind = "timeout"

(* C7 as stated: when two consecutive request calls end in a timeout with  *)
(* no successful reply between them, the registered disconnect callback    *)
(* has been invoked.                                                       *)
C7_CallbackAfterTwoTimeouts ==
    (timeoutStreak >= 2 /\ onDisconnect) => streakNotified >= 1

(* C7 amended: when the second or a later consecutive request call ends in *)
(* a timeout with no successful reply in between, the registered           *)
(* disconnect callback is invoked at the end of that call exactly when the *)
(* workspace counted as connected (a reply had been received before and no *)
(* disconnect has been signalled since); otherwise it is not invoked.      *)
C7_CallbackOnlyWhenConnected ==
    (lastReturn.kind = "timeout" /\ timeoutStreak >= 2 /\ onDisconnect) =>
        /\ lastReturn.notified = lastReturn.connectedBefore
        /\ lastReturn.notified => (disconnectCalls >= 1 /\ ~wasConnected)

\* the second timeout in a row on a connected workspace invoked the callback
C7_Witness ==
    /\ lastReturn.kind = "timeout"
    /\ timeoutStreak = 2
    /\ onDisconnect
    /\ lastReturn.connectedBefore
    /\ lastReturn.notified
    /\ disconnectCalls = 1

(* C8: a reply that carries an error status is handed to the caller by the *)
(* attempt that received it and never triggers a retry, whatever the retry *)
(* bound: once a flow has received such a reply its call has returned it   *)
(* and no further attempt was made.                                        *)
C8_ErrorReplyNotRetried ==
    \A c \in Callers :
        (call[c].replyGot = ErrorReply) =>
            /\ call[c].pc = "idle"
            /\ call[c].result = ErrorReply
            /\ call[c].attemptsMade = call[c].replyAttempt

\* an error reply to the first attempt returned although a retry was left
C8_Witness ==
    /\ maxRetries = 1
    /\ call[1].pc = "idle"
    /\ call[1].replyGot = ErrorReply
    /\ call[1].result = ErrorReply
    /\ call[1].attemptsMade = 1


\* the flows whose request is outstanding: their waiter is registered and
\* they have not returned or started another attempt
Outstanding == {c \in Callers : call[c].pc \in {"registered", "send", "wait"}}

\* the waiter key of the attempt flow c is making
waiterKey(c) == uniqueReplyAddress(call[c].address, call[c].requestID)

(* C24: the waiter keys (reply address, '#', request ID) of the            *)
(* outstanding requests are pairwise different, also when the requests are *)
(* issued concurrently, so registering a waiter never overwrites another   *)
(* outstanding one.                                                        *)
C24_WaiterKeysUnique ==
    \A c1, c2 \in Outstanding : c1 # c2 => waiterKey(c1) # waiterKey(c2)

\* C24 for one flow: the request IDs of its attempts never repeat, so the
\* key it registers is not in the registry yet
C24_SequentialKeysFresh ==
    \A c \in Callers :
        call[c].pc \in {"listen", "register"} => waiterKey(c) \notin DOMAIN replyHandlers

(* C25: every read and every mutation of the pending-waiter registry (the  *)
(* store of a waiter, the listener's scan and removal, the removal on a    *)
(* timeout, the clearing on close) happens while the registry lock is held *)
(* by the thread that makes it.                                            *)
C25_RegistryAccessedUnderLock ==
    /\ \A c \in Callers :
          call[c].pc \in {"register", "remove"} => replyHandlersMux = ToString(c)
    /\ listener.pc = "scan" => replyHandlersMux = "listener"
    /\ closePc = "clear" => replyHandlersMux = "close"

\* C25, for the mutations: the registry changes only in steps that begin and
\* end with the lock held
C25_RegistryChangesUnderLock ==
    [][replyHandlers' # replyHandlers
          => replyHandlersMux # "" /\ replyHandlersMux' = replyHandlersMux]_vars

\* the listener scans the registry for a reply's waiter while a flow whose
\* timeout has expired waits for the lock to remove that waiter
C25_Witness ==
    /\ listener.pc = "scan"
    /\ replyHandlersMux = "listener"
    /\ \E c \in Callers :
          /\ call[c].pc = "wait"
          /\ call[c].elapsed = effectiveTimeout(timeout)
          /\ waiterKey(c) \in matchingHandlers(listener.address)

\* the flows that receive, or are about to receive, on the reply channel ch
receiversOf(ch) ==
    {c \in Callers : call[c].chan = ch /\ call[c].pc \in {"registered", "send", "wait"}}

(* C26: the listener never blocks indefinitely while delivering a reply:   *)
(* whenever it sends on a waiter's channel, the flow that made the channel *)
(* is receiving on it or about to; a reply whose waiter timed out or whose *)
(* attempt failed to send is dropped.                                      *)
C26_DeliveryFindsReceiver ==
    listener.pc = "deliver" => receiversOf(listener.chan) # {}

\* C26, the part that holds: a reply that matches no registered waiter is
\* dropped, the listener is free for the next message
C26_UnmatchedReplyDropped ==
    [][listener.pc = "unlock" /\ listener.chan = NoChan /\ listener' # listener
          => listener' = IdleListener]_vars

(* C27: when a request call has returned, with a reply or with the timeout *)
(* payload, the registry holds no waiter that call registered, the ones of *)
(* attempts whose send failed included.                                    *)
C27_NoWaiterLeftOnReturn ==
    \A c \in Callers :
        call[c].pc = "idle" /\ call[c].calls > 0
            => \A k \in DOMAIN replyHandlers : replyHandlers[k] \notin call[c].registered

\* C27, for the attempts that timed out: the waiter of an attempt whose
\* timeout branch ran is not in the registry afterwards
C27_TimedOutWaiterRemoved ==
    \A c \in Callers :
        call[c].pc = "removed" => waiterKey(c) \notin DOMAIN replyHandlers

(***************************************************************************)
(* Mutation driver                                                         *)
(* The driver's state d holds the workspace maps it reads and writes, the  *)
(* pass mapping, the commands sent so far and the error and ID returned by *)
(* the operation just run.  The remote answers the command number failAt   *)
(* with an error status (0: never) and every other one with status ok.     *)
(* The cues of the model carry none of the text, preWait, infiniteLoop and *)
(* mode properties.                                                        *)
(***************************************************************************)

Command(op, id, property, value) ==
    [op |-> op, id |-> id, property |-> property, value |-> value]

\* q.Send / q.SendWithArgs of a command, and the status of the reply
sendCommand(d, cmd) ==
    [d EXCEPT !.sent = Append(@, cmd),
              !.reply = IF Len(d.sent) + 1 = d.failAt \/ Len(d.sent) + 1 \in d.failing
                        THEN "error" ELSE "ok"]

\* clearCueNumber
clearCueNumber(d, cueID) ==
    LET checked(s) ==
            IF s.reply = "error"
            THEN [s EXCEPT !.err = "failed to clear number for cue " \o cueID]
            ELSE s
    IN  checked(sendCommand(d, Command("set", cueID, "number", "")))

\* the conflict handleCueNumberConflict warns of ("Cue number conflict
\* detected") before it looks at the force flag; at is the number of commands
\* sent before
Collision(d, newCueID, cueNumber) ==
    [number |-> cueNumber, owner |-> d.cueNumbers[cueNumber], newID |-> newCueID,
     at |-> Len(d.sent)]

\* the mutant of handleCueNumberConflict that lets a collision pass with force off
handleCueNumberConflictIgnored(d, newCueID, cueNumber) ==
    LET cleared(c) ==
            IF c.err # ""
            THEN [c EXCEPT !.err = "failed to clear conflicting cue number: " \o c.err]
            ELSE [c EXCEPT !.cueNumbers = Delete(@, cueNumber)]
        warned(w) == [w EXCEPT !.collisions = @ \cup {Collision(d, newCueID, cueNumber)}]
    IN  IF cueNumber \notin DOMAIN d.cueNumbers THEN d
        ELSE IF d.cueNumbers[cueNumber] = newCueID THEN d
        ELSE IF d.force
        THEN cleared(clearCueNumber(warned(d), d.cueNumbers[cueNumber]))
        ELSE warned(d)

\* the mutant of handleCueNumberConflict that, with force on, forgets the
\* earlier owner without clearing its number
handleCueNumberConflictNoClear(d, newCueID, cueNumber) ==
    LET warned(w) == [w EXCEPT !.collisions = @ \cup {Collision(d, newCueID, cueNumber)}]
    IN  IF cueNumber \notin DOMAIN d.cueNumbers THEN d
        ELSE IF d.cueNumbers[cueNumber] = newCueID THEN d
        ELSE IF d.force
        THEN [warned(d) EXCEPT !.cueNumbers = Delete(@, cueNumber)]
        ELSE [warned(d) EXCEPT !.err = "cue number conflict: '" \o cueNumber
                                      \o "' is already assigned to cue "
                                      \o d.cueNumbers[cueNumber]]

\* handleCueNumberConflict; the error of the last branch is the text of
\* CueNumberConflictError.Error(), and collisions records the conflicts
\* warned of
handleCueNumberConflict(d, newCueID, cueNumber) ==
    LET cleared(c) ==
            IF c.err # ""
            THEN [c EXCEPT !.err = "failed to clear conflicting cue number: " \o c.err]
            ELSE [c EXCEPT !.cueNumbers = Delete(@, cueNumber)]
        warned(w) == [w EXCEPT !.collisions = @ \cup {Collision(d, newCueID, cueNumber)}]
    IN  IF cueNumber \notin DOMAIN d.cueNumbers THEN d
        ELSE IF d.cueNumbers[cueNumber] = newCueID THEN d
        ELSE IF d.force
        THEN cleared(clearCueNumber(warned(d), d.cueNumbers[cueNumber]))
        ELSE [warned(d) EXCEPT !.err = "cue number conflict: '" \o cueNumber
                                      \o "' is already assigned to cue "
                                      \o d.cueNumbers[cueNumber]]

\* setCueProperty: the conflict check, the command, the reply's status, the tracking
setCueProperty(d, uniqueID, property, value) ==
    LET replied(s) ==
            IF s.reply = "error"
            THEN [s EXCEPT !.err = "failed to set " \o property \o "=" \o value
                                   \o " for cue " \o uniqueID]
            ELSE IF property = "number" /\ value # ""
                 THEN [s EXCEPT !.cueNumbers = Put(@, value, uniqueID)]
                 ELSE s
        checked(h) ==
            IF h.err # "" THEN h
            ELSE replied(sendCommand(h, Command("set", uniqueID, property, value)))
    IN  checked(IF property = "number" /\ value # ""
                THEN handleCueNumberConflict(d, uniqueID, value) ELSE d)

\* one "if <cond> { if err := q.setCueProperty(...); err != nil { return wrapped } }"
setIf(d, cond, uniqueID, property, value, message) ==
    LET wrapped(s) ==
            IF s.err # "" THEN [s EXCEPT !.err = message \o ": " \o s.err] ELSE s
    IN  IF d.err # "" \/ ~cond THEN d
        ELSE wrapped(setCueProperty(d, uniqueID, property, value))

\* the number step of createCueWithoutTarget: an error that is a
\* CueNumberConflictError is logged and skipped
setNumber(d, uniqueID, cueNumber) ==
    LET handled(s) ==
            IF s.err = "" THEN s
            ELSE IF HasPrefix(s.err, "cue number conflict: ") THEN [s EXCEPT !.err = ""]
            ELSE [s EXCEPT !.err = "failed to set cue number: " \o s.err]
    IN  IF d.err # "" \/ cueNumber = "" THEN d
        ELSE handled(setCueProperty(d, uniqueID, "number", cueNumber))

\* resolveFilePath, with q.cueFileDirectory = "/show"
resolveFilePath(filePath) ==
    IF HasPrefix(filePath, "/") THEN filePath ELSE "/show/" \o filePath

\* createCueWithoutTarget: the remote names the n-th cue it creates IDn, and
\* the new cue's ID is left in d.id
createCueWithoutTarget(d, cueData, cueNumber) ==
    LET id == "ID" \o ToString(d.created + 1)
        named(s)    == setIf(s, GetString(cueData, "name") # "", id, "name",
                             GetString(cueData, "name"), "failed to set cue name")
        numbered(s) == setNumber(s, id, cueNumber)
        filed(s)    == setIf(s, GetString(cueData, "fileTarget") # "", id, "file",
                             resolveFilePath(GetString(cueData, "fileTarget")),
                             "failed to set file")
        noted(s)    == setIf(s, GetString(cueData, "notes") # "", id, "notes",
                             GetString(cueData, "notes"), "failed to set notes")
        timed(s)    == setIf(s, GetString(cueData, "duration") \notin {"", "0"}, id,
                             "duration", GetString(cueData, "duration"),
                             "failed to set duration")
        armed(s)    == setIf(s, GetString(cueData, "armed") = "true", id, "armed",
                             "1", "failed to set armed")
        coloured(s) == setIf(s, GetString(cueData, "colorName") \notin {"", "none"},
                             id, "colorName", GetString(cueData, "colorName"),
                             "failed to set colorName")
        returned(s) == IF s.err # "" THEN [s EXCEPT !.id = ""] ELSE [s EXCEPT !.id = id]
        created(s)  ==
            IF s.reply = "error"
            THEN [s EXCEPT !.err = "QLab rejected cue creation", !.id = ""]
            ELSE returned(coloured(armed(timed(noted(filed(numbered(named(
                     [s EXCEPT !.created = @ + 1]))))))))
    IN  created(sendCommand(d, Command("new", "", "type", GetString(cueData, "type"))))

\* updateCueProperties
updateCueProperties(d, uniqueID, cueData) ==
    setIf(setIf(setIf(d, GetString(cueData, "name") # "", uniqueID, "name",
                      GetString(cueData, "name"), "failed to update cue name"),
                GetString(cueData, "fileTarget") # "", uniqueID, "file",
                resolveFilePath(GetString(cueData, "fileTarget")),
                "failed to update file"),
          GetString(cueData, "cueTargetNumber") # "", uniqueID, "cueTargetNumber",
          GetString(cueData, "cueTargetNumber"), "failed to update cue target number")

\* moveCueToParent: the move to index 0
moveCueToParent(d, cueID, parentCueID) ==
    LET checked(s) ==
            IF s.reply = "error"
            THEN [s EXCEPT !.err = "failed to move cue " \o cueID \o " into parent "
                                   \o parentCueID]
            ELSE s
    IN  checked(sendCommand(d, Command("move", cueID, "0", parentCueID)))

\* the mutant of moveCueToParentWithIndex that moves the parent under the child
moveCueToParentWithIndexSwapped(d, cueID, parentCueID, index) ==
    sendCommand(d, Command("move", parentCueID, ToString(index), cueID))

\* moveCueToParentWithIndex
moveCueToParentWithIndex(d, cueID, parentCueID, index) ==
    LET checked(s) ==
            IF s.reply = "error"
            THEN [s EXCEPT !.err = "failed to move cue " \o cueID \o " into parent "
                                   \o parentCueID \o " at index " \o ToString(index)]
            ELSE s
    IN  checked(sendCommand(d, Command("move", cueID, ToString(index), parentCueID)))

\* the change result of a key: its action and the remote ID it carries
ChangeResult(action, existingID) ==
    [createResult EXCEPT !.Action = action, !.ExistingID = existingID,
                         !.CueID = existingID]

\* the mutant of mapNumber that records nothing
mapNumberNever(d, fullNumber, uniqueID) == d

\* "if fullNumber != "" && uniqueID != "" { mapping.NumberToID[fullNumber] = uniqueID }"
mapNumber(d, fullNumber, uniqueID) ==
    IF fullNumber # "" /\ uniqueID # ""
    THEN [d EXCEPT !.NumberToID = Put(@, fullNumber, uniqueID)]
    ELSE d

\* an early "return uniqueID, err" of the per-cue handler
returnNow(d, uniqueID, err) == [d EXCEPT !.id = uniqueID, !.err = err, !.ret = TRUE]

\* the mutant of processUpdate that does not check the remote ID
processUpdateNoIDCheck(d, cueData, fullNumber, lookupKey, uniqueID) ==
    LET updated(u) ==
            IF u.err # ""
            THEN returnNow(u, "", "failed to update cue " \o lookupKey \o ": " \o u.err)
            ELSE [mapNumber(u, fullNumber, uniqueID) EXCEPT !.id = uniqueID]
    IN  updated(updateCueProperties(d, uniqueID, cueData))

\* case "update" of the per-cue handler
processUpdate(d, cueData, fullNumber, lookupKey, uniqueID) ==
    LET updated(u) ==
            IF u.err # ""
            THEN returnNow(u, "", "failed to update cue " \o lookupKey \o ": " \o u.err)
            ELSE [mapNumber(u, fullNumber, uniqueID) EXCEPT !.id = uniqueID]
    IN  IF uniqueID = ""
        THEN returnNow(d, "", "cannot update cue " \o lookupKey
                              \o ": no existing ID provided")
        ELSE updated(updateCueProperties(d, uniqueID, cueData))

\* the create branches of the per-cue handler
processCreate(d, cueData, fullNumber, key) ==
    LET created(c) ==
            IF c.err # ""
            THEN returnNow(c, "", "failed to create cue " \o key \o ": " \o c.err)
            ELSE c
    IN  created(createCueWithoutTarget(d, cueData, fullNumber))

\* the action switch of the per-cue handler, and its no-change-data branch;
\* existing is the existing cue list of the cue's name, "" when there is none
actOnChangeResult(d, cueData, fullNumber, lookupKey, changeResults) ==
    LET cueName  == GetString(cueData, "name")
        existing == IF GetString(cueData, "type") = "list" /\ cueName # ""
                       /\ cueName \in DOMAIN d.cueListNames
                    THEN d.cueListNames[cueName] ELSE ""
    IN  IF lookupKey # ""
        THEN LET result == changeResults[lookupKey]
             IN  CASE result.Action = "skip" ->
                        returnNow(mapNumber(d, fullNumber, result.ExistingID),
                                  result.ExistingID, "")
                   [] result.Action = "update" ->
                        processUpdate(d, cueData, fullNumber, lookupKey,
                                      result.ExistingID)
                   [] OTHER -> processCreate(d, cueData, fullNumber, lookupKey)
        ELSE IF existing # ""
             THEN returnNow(mapNumber(d, fullNumber, existing), existing, "")
             ELSE processCreate(d, cueData, fullNumber, fullNumber)

\* "for _, existingID := range q.cueListNames { if existingID == id ... }"
isExistingCueList(d, id) ==
    \E n \in DOMAIN d.cueListNames : d.cueListNames[n] = id

\* the bookkeeping after the cue exists: list names, mapping, targets, move
registerCue(d, cueData, fullNumber, parentUniqueID) ==
    LET uniqueID == d.id
        named(s) ==
            IF GetString(cueData, "type") = "list"
               /\ GetString(cueData, "name") # "" /\ uniqueID # ""
            THEN [s EXCEPT !.cueListNames = Put(@, GetString(cueData, "name"), uniqueID)]
            ELSE s
        targeted(s) ==
            IF GetString(cueData, "cueTargetNumber") # "" /\ uniqueID # ""
            THEN [s EXCEPT !.CuesWithTargets =
                      Append(@, [UniqueID |-> uniqueID,
                                 TargetNumber |-> GetString(cueData, "cueTargetNumber")])]
            ELSE s
        moved(m) ==
            IF m.err # ""
            THEN returnNow(m, "", "failed to move cue " \o uniqueID
                                  \o " into parent " \o parentUniqueID \o ": " \o m.err)
            ELSE m
        placed(s) ==
            IF parentUniqueID # "" /\ uniqueID # ""
               /\ ~isExistingCueList(s, parentUniqueID)
            THEN moved(moveCueToParent(s, uniqueID, parentUniqueID))
            ELSE s
    IN  placed(targeted(mapNumber(named(d), fullNumber, uniqueID)))

RECURSIVE processCue(_, _, _, _, _, _)
RECURSIVE processSubCues(_, _, _, _, _, _)

\* the loop over the sub-cues of the cue uniqueID, from the i-th (1-based) on;
\* childLookupKey is the key the parent looks the child's verdict up under
processSubCues(d, subCues, i, fullNumber, uniqueID, changeResults) ==
    LET childLookupKey ==
            IF GetString(subCues[i], "number") # ""
            THEN GetString(subCues[i], "number")
            ELSE buildPositionKey(fullNumber, i - 1, GetString(subCues[i], "type"),
                                  GetString(subCues[i], "name"))
        shouldSkipMove ==
            /\ childLookupKey \in DOMAIN changeResults
            /\ changeResults[childLookupKey].Action = "skip"
        next(s) == processSubCues(s, subCues, i + 1, fullNumber, uniqueID, changeResults)
        moved(m, childUniqueID) ==
            IF m.err # ""
            THEN [m EXCEPT !.err = "failed to move child cue " \o childUniqueID
                                   \o " into parent " \o uniqueID \o " at index "
                                   \o ToString(i - 1) \o ": " \o m.err]
            ELSE next(m)
        processed(c) ==
            IF c.err # ""
            THEN [c EXCEPT !.err = "error processing sub-cue " \o ToString(i - 1)
                                   \o ": " \o c.err]
            ELSE IF c.id # "" /\ ~shouldSkipMove /\ ~isExistingCueList(c, uniqueID)
            THEN moved(moveCueToParentWithIndex(c, c.id, uniqueID, i - 1), c.id)
            ELSE next(c)
    IN  IF i > Len(subCues) THEN d
        ELSE processed(processCue(d, subCues[i], fullNumber, "", changeResults, i - 1))

\* processCueListWithParentMappingAndChangeDetectionWithIndex; every call is
\* recorded in visits with the cue's number, type and name, the parent number
\* and index it was called with, and the commands sent before it and by its end
processCue(d, cueData, parentNumber, parentUniqueID, changeResults, cueIndex) ==
    LET cueType    == GetString(cueData, "type")
        cueName    == GetString(cueData, "name")
        fullNumber == buildFullNumber(parentNumber, formatCueNumber(cueData))
        positionKey == IF fullNumber = "" /\ cueIndex >= 0
                       THEN buildPositionKey(parentNumber, cueIndex, cueType, cueName)
                       ELSE ""
        lookupKey  == IF fullNumber # ""
                      THEN (IF fullNumber \in DOMAIN changeResults
                            THEN fullNumber ELSE "")
                      ELSE IF positionKey # "" /\ positionKey \in DOMAIN changeResults
                           THEN positionKey ELSE ""
        registered(a) ==
            IF a.ret THEN a ELSE registerCue(a, cueData, fullNumber, parentUniqueID)
        returned(s, uniqueID) ==
            IF s.err # "" THEN [s EXCEPT !.id = ""] ELSE [s EXCEPT !.id = uniqueID]
        withSubCues(r) ==
            IF r.ret \/ ~HasSubCues(cueData) \/ r.id = "" THEN returned(r, r.id)
            ELSE returned(processSubCues(r, cueData["cues"], 1, fullNumber, r.id,
                                         changeResults), r.id)
        visited(out) ==
            [out EXCEPT !.ret = FALSE,
                        !.visits = Append(@, [key |-> lookupKey,
                                              action |-> IF lookupKey = "" THEN "none"
                                                         ELSE changeResults[lookupKey].Action,
                                              existingID |-> IF lookupKey = "" THEN ""
                                                             ELSE changeResults[lookupKey].ExistingID,
                                              number |-> fullNumber,
                                              parent |-> parentNumber,
                                              index |-> cueIndex,
                                              type |-> cueType,
                                              name |-> cueName,
                                              first |-> Len(d.sent),
                                              last |-> Len(out.sent),
                                              id |-> out.id,
                                              err |-> out.err])]
    IN  visited(withSubCues(registered(
            actOnChangeResult([d EXCEPT !.ret = FALSE, !.err = "", !.id = ""],
                              cueData, fullNumber, lookupKey, changeResults))))

RECURSIVE setCueTargetsStrict(_, _)
\* the mutant of setCueTargets that returns an error for a target number the
\* mapping does not hold
setCueTargetsStrict(d, i) ==
    LET fellBack(f, targetNumber, targetID) ==
            IF f.err # ""
            THEN [f EXCEPT !.err = "failed to set cue target " \o targetNumber
                                   \o " -> " \o targetID \o ": " \o f.err]
            ELSE setCueTargetsStrict(f, i + 1)
        tried(s, t) ==
            IF s.err = "" THEN setCueTargetsStrict(s, i + 1)
            ELSE IF t.TargetNumber \in DOMAIN s.NumberToID
            THEN fellBack(setCueProperty([s EXCEPT !.err = ""], t.UniqueID,
                                         "cueTargetID", s.NumberToID[t.TargetNumber]),
                          t.TargetNumber, s.NumberToID[t.TargetNumber])
            ELSE [s EXCEPT !.err = "target cue number " \o t.TargetNumber \o " not found"]
    IN  IF i > Len(d.CuesWithTargets) THEN d
        ELSE tried(setCueProperty(d, d.CuesWithTargets[i].UniqueID, "cueTargetNumber",
                                  d.CuesWithTargets[i].TargetNumber),
                   d.CuesWithTargets[i])

RECURSIVE setCueTargets(_, _)
\* setCueTargets, from the i-th pending target on
setCueTargets(d, i) ==
    LET fellBack(f, targetNumber, targetID) ==
            IF f.err # ""
            THEN [f EXCEPT !.err = "failed to set cue target " \o targetNumber
                                   \o " -> " \o targetID \o ": " \o f.err]
            ELSE setCueTargets(f, i + 1)
        tried(s, t) ==
            IF s.err = "" THEN setCueTargets(s, i + 1)
            ELSE IF t.TargetNumber \in DOMAIN s.NumberToID
            THEN fellBack(setCueProperty([s EXCEPT !.err = ""], t.UniqueID,
                                         "cueTargetID", s.NumberToID[t.TargetNumber]),
                          t.TargetNumber, s.NumberToID[t.TargetNumber])
            ELSE setCueTargets([s EXCEPT !.err = ""], i + 1)
    IN  IF i > Len(d.CuesWithTargets) THEN d
        ELSE tried(setCueProperty(d, d.CuesWithTargets[i].UniqueID, "cueTargetNumber",
                                  d.CuesWithTargets[i].TargetNumber),
                   d.CuesWithTargets[i])

(***************************************************************************)
(* Mutation driver: one pass                                               *)
(***************************************************************************)

RECURSIVE SubSeqsOf(_, _)
\* the subsequences of at most n elements of a sequence
SubSeqsOf(seq, n) ==
    IF seq = <<>> \/ n = 0 THEN {<<>>}
    ELSE SubSeqsOf(Tail(seq), n)
         \cup {<<Head(seq)>> \o t : t \in SubSeqsOf(Tail(seq), n - 1)}

\* the cues a source file is made of: an audio cue with a file, a cue
\* targeting it, two cues asking for the same number, and a group of a
\* numberless and a numbered cue
FileCuePool ==
    <<[number |-> Str("1"), name |-> Str("A"), type |-> Str("audio"),
       fileTarget |-> Str("a.wav")],
      [number |-> Str("7"), name |-> Str("B"), type |-> Str("memo")],
      [number |-> Str("7"), type |-> Str("fade"), cueTargetNumber |-> Str("1")],
      [number |-> Str("3"), name |-> Str("G"), type |-> Str("group"),
       cues |-> <<[name |-> Str("P"), type |-> Str("Audio")],
                  [number |-> Str("7.0"), name |-> Str("Q"), type |-> Str("memo")]>>]>>

MaxTopCues == 2

\* the verdicts a key may have got
ChangeResultChoices ==
    {ChangeResult("create", ""), ChangeResult("skip", "X1"),
     [ChangeResult("update", "X1") EXCEPT
          !.ModifiedFields = [f \in {"name"} |-> "changed"]],
     ChangeResult("update", "")}

MaxFailAt == 2

\* q.transmitCueFileWithChangeDetection(workspaceData, comparison) is called
\* on a workspace that tracks no cue number or the number 7 of a cue X7; the
\* file holds cues of the pool, or the pool's group with a third child whose
\* number 2 is relative to the group's, or the pool's first cue followed by
\* the group's numberless child as a top-level cue
InitDrv ==
    /\ RecIdle
    /\ CoordinatorIdle
    /\ wasConnected = FALSE
    /\ fileCues \in SubSeqsOf(FileCuePool, MaxTopCues)
                    \cup {<<Put(FileCuePool[4], "cues",
                                Append(FileCuePool[4]["cues"],
                                       [number |-> Str("2"), name |-> Str("R"),
                                        type |-> Str("memo")]))>>,
                          <<FileCuePool[1], FileCuePool[4]["cues"][1]>>}
    /\ \E keys \in SUBSET DOMAIN indexCuesFromWorkspace(CuesWorkspace(fileCues)) :
          passResults \in [keys -> ChangeResultChoices]
    /\ \E numbers \in {NoIDs, [k \in {"7"} |-> "X7"]}, force \in BOOLEAN, failAt \in 0..MaxFailAt :
          driver = NewDriver(numbers, force, failAt)
    /\ cueCursor = 0
    /\ transmitPc = "start"
    /\ conn = [NewConn EXCEPT !.workspace_id = "W1", !.initialized = TRUE]
    /\ fnArgs = <<>>
    /\ fnResult = <<>>

\* the extraction of the cue array and the creation of the pass mapping
StartTransmit ==
    /\ transmitPc = "start"
    /\ IF Len(fileCues) = 0
       THEN /\ transmitPc' = "failed"
            /\ driver' = [driver EXCEPT !.err = "no cues found in CUE file"]
            /\ UNCHANGED cueCursor
       ELSE /\ transmitPc' = "processing"
            /\ driver' = [driver EXCEPT !.NumberToID = NoIDs, !.CuesWithTargets = <<>>]
            /\ cueCursor' = 1
    /\ UNCHANGED <<fileCues, passResults, conn>>
    /\ UNCHANGED <<recVars, oscVars, fnArgs, fnResult>>

\* the mutant of ProcessNextCue that logs a cue's error and goes on
ProcessNextCueIgnoringErrors ==
    /\ transmitPc = "processing"
    /\ cueCursor <= Len(fileCues)
    /\ driver' = [processCue(driver, fileCues[cueCursor], "", "", passResults, 0 - 1)
                      EXCEPT !.err = ""]
    /\ cueCursor' = cueCursor + 1
    /\ UNCHANGED <<fileCues, passResults, transmitPc, conn>>
    /\ UNCHANGED <<recVars, oscVars, fnArgs, fnResult>>

\* one iteration of the loop over the top-level cues
ProcessNextCue ==
    /\ transmitPc = "processing"
    /\ cueCursor <= Len(fileCues)
    /\ \E d \in {processCue(driver, fileCues[cueCursor], "", "", passResults, 0 - 1)} :
           IF d.err # ""
           THEN /\ driver' = [d EXCEPT !.err = "failed to process cue: " \o d.err]
                /\ transmitPc' = "failed"
                /\ UNCHANGED cueCursor
           ELSE /\ driver' = d
                /\ cueCursor' = cueCursor + 1
                /\ UNCHANGED transmitPc
    /\ UNCHANGED <<fileCues, passResults, conn>>
    /\ UNCHANGED <<recVars, oscVars, fnArgs, fnResult>>

\* the end of the loop: q.setCueTargets(mapping) and the return
SetTargets ==
    /\ transmitPc = "processing"
    /\ cueCursor > Len(fileCues)
    /\ \E d \in {setCueTargets(driver, 1)} :
           IF d.err # ""
           THEN /\ driver' = [d EXCEPT !.err = "failed to set cue targets: " \o d.err]
                /\ transmitPc' = "failed"
           ELSE /\ driver' = d
                /\ transmitPc' = "done"
    /\ UNCHANGED <<fileCues, passResults, cueCursor, conn>>
    /\ UNCHANGED <<recVars, oscVars, fnArgs, fnResult>>

\* TransmitWorkspaceData after a pass that returned no error: the cache
\* snapshot is written; a failure to write it is logged and ignored
SaveCache ==
    /\ transmitPc = "done"
    /\ \E written \in BOOLEAN : driver' = [driver EXCEPT !.cacheWritten = written]
    /\ transmitPc' = "returned"
    /\ UNCHANGED <<fileCues, passResults, cueCursor, conn>>
    /\ UNCHANGED <<recVars, oscVars, fnArgs, fnResult>>

NextDrv == StartTransmit \/ ProcessNextCue \/ SetTargets \/ SaveCache

SpecDrv == InitDrv /\ [][NextDrv]_vars

\* the calls of the per-cue handler that met an update verdict without a remote ID
UpdatesWithoutID ==
    {i \in 1..Len(driver.visits) :
        driver.visits[i].action = "update" /\ driver.visits[i].existingID = ""}

\* C9: a cue whose verdict is update and whose change result carries no
\* remote ID makes the per-cue handler return the error "cannot update cue
\* <key>: no existing ID provided" without sending a command for that cue,
\* and the pass ends there with that error: nothing is sent afterwards, the
\* loop does not go on and the result of the pass is the wrapped error.
C9_UpdateWithoutIDAborts ==
    \A i \in UpdatesWithoutID :
        LET v == driver.visits[i]
        IN  /\ v.err = "cannot update cue " \o v.key \o ": no existing ID provided"
            /\ v.id = ""
            /\ v.first = v.last
            /\ Len(driver.sent) = v.last
            /\ \A j \in 1..Len(driver.visits) : j > i => driver.visits[j].first <= v.first
            /\ transmitPc = "failed"
            /\ cueCursor <= Len(fileCues)
            /\ HasPrefix(driver.err, "failed to process cue: ")
            /\ ContainsStr(driver.err, v.err)

\* the second top-level cue has an update verdict without ID after the first
\* one was created: the pass has failed with the first cue's commands sent
C9_Witness ==
    /\ transmitPc = "failed"
    /\ cueCursor = 2
    /\ UpdatesWithoutID # {}
    /\ Len(driver.sent) > 0
    /\ driver.created = 1

\* the commands that assign the number of a recorded collision to its new cue
CollidingAssignments ==
    {i \in 1..Len(driver.sent) :
        \E col \in driver.collisions :
            driver.sent[i] = Command("set", col.newID, "number", col.number)}

\* C10: with force mode off, when a cue asks for a number tracked for another
\* cue, no command assigning that number to the new cue is sent, the earlier
\* cue stays the tracked owner, the new cue has been created, and neither the
\* per-cue handler nor the pass reports the conflict as an error; without
\* remote errors the creating call returns the new cue's ID.
C10_CollisionSkipsAssignment ==
    ~driver.force =>
        /\ CollidingAssignments = {}
        /\ \A col \in driver.collisions :
              /\ col.number \in DOMAIN driver.cueNumbers
              /\ driver.cueNumbers[col.number] = col.owner
              /\ col.owner # col.newID
              /\ \E n \in 1..driver.created : col.newID = "ID" \o ToString(n)
              /\ driver.failAt = 0 =>
                    \E i \in 1..Len(driver.visits) :
                        /\ driver.visits[i].id = col.newID
                        /\ driver.visits[i].action # "update"
                        /\ ~ContainsStr(driver.visits[i].err, "cue number conflict")
        /\ ~ContainsStr(driver.err, "cue number conflict")
        /\ \A i \in 1..Len(driver.visits) :
              ~ContainsStr(driver.visits[i].err, "cue number conflict")

\* two successive cues collided on the number 7 of an earlier cue and the
\* pass completed with both of them created
C10_Witness ==
    /\ ~driver.force
    /\ transmitPc = "done"
    /\ Cardinality(driver.collisions) = 2
    /\ \A col \in driver.collisions : col.number = "7" /\ col.owner = "X7"
    /\ driver.created = 2
    /\ driver.cueNumbers = [k \in {"7"} |-> "X7"]

\* the conflicts on the number of col that were detected after it
LaterCollisions(col) ==
    {other \in driver.collisions : other.number = col.number /\ other.at > col.at}

(* C31: with force mode on, when a cue asks for a number tracked for       *)
(* another cue, the command clearing the earlier owner's number is sent    *)
(* first and the command assigning the number to the new cue right after   *)
(* it; once both were accepted the number is tracked for the new cue and   *)
(* not for the earlier owner, until a later cue takes it in the same way.  *)
(* A rejected clear sends no assignment and leaves the tracking as it was. *)
C31_ForceClearsEarlierOwner ==
    driver.force =>
        \A col \in driver.collisions :
            /\ col.owner # col.newID
            /\ Len(driver.sent) > col.at
            /\ driver.sent[col.at + 1] = Command("set", col.owner, "number", "")
            /\ \A i \in 1..col.at :
                  driver.sent[i] # Command("set", col.newID, "number", col.number)
            /\ IF col.at + 1 = driver.failAt
               THEN /\ Len(driver.sent) = col.at + 1
                    /\ driver.err # ""
                    /\ col.number \in DOMAIN driver.cueNumbers
                    /\ driver.cueNumbers[col.number] = col.owner
               ELSE /\ Len(driver.sent) > col.at + 1
                    /\ driver.sent[col.at + 2]
                          = Command("set", col.newID, "number", col.number)
                    /\ col.at + 2 # driver.failAt =>
                          IF LaterCollisions(col) = {}
                          THEN /\ col.number \in DOMAIN driver.cueNumbers
                               /\ driver.cueNumbers[col.number] = col.newID
                          ELSE \E next \in LaterCollisions(col) :
                                  /\ next.owner = col.newID
                                  /\ \A other \in LaterCollisions(col) :
                                        other.at >= next.at

\* with force on, the number 7 of the remote cue X7 went to the first cue
\* created and from that one to the second, and the pass completed
C31_Witness ==
    /\ driver.force
    /\ transmitPc = "done"
    /\ driver.failAt = 0
    /\ {<<col.owner, col.newID>> : col \in driver.collisions}
          = {<<"X7", "ID1">>, <<"ID1", "ID2">>}
    /\ driver.cueNumbers = [k \in {"7"} |-> "ID2"]
    /\ \E i \in 1..Len(driver.sent) :
          driver.sent[i] = Command("set", "ID1", "number", "")

\* the keys of the descendants of the top-level cue: the keys of its subtree
\* without its own
DescendantKeys(cue) ==
    DOMAIN indexCuesFromWorkspace(CuesWorkspace(<<cue>>)) \ {formatCueNumber(cue)}

\* the top-level cues of the file whose verdict is skip
SkippedTopCues ==
    {i \in 1..Len(fileCues) :
        /\ formatCueNumber(fileCues[i]) \in DOMAIN passResults
        /\ passResults[formatCueNumber(fileCues[i])].Action = "skip"}

\* C18: if a cue's action is skip and a descendant has action create or
\* update under its own key, the descendant's create or update is carried
\* out in the same pass: by the end of a successful pass the driver has
\* processed the descendant and sent its commands.
C18_DescendantsOfSkippedCueProcessed ==
    transmitPc = "done" =>
        \A i \in SkippedTopCues : \A k \in DescendantKeys(fileCues[i]) :
            (k \in DOMAIN passResults /\ passResults[k].Action \in {"create", "update"}) =>
                \E j \in 1..Len(driver.visits) :
                    /\ driver.visits[j].key = k
                    /\ driver.visits[j].action = passResults[k].Action
                    /\ driver.visits[j].last > driver.visits[j].first

\* the calls of processCue that found the verdict skip
SkippedVisits == {j \in 1..Len(driver.visits) : driver.visits[j].action = "skip"}

\* the parent's child-placement step moved the cue of visit j: the command
\* sent next after the call returned, and before any later call returned,
\* is a move of the ID it returned
MovedByParent(j) ==
    /\ driver.visits[j].id # ""
    /\ \A k \in 1..Len(driver.visits) :
          k > j => driver.visits[k].last > driver.visits[j].last
    /\ Len(driver.sent) > driver.visits[j].last
    /\ driver.sent[driver.visits[j].last + 1].op = "move"
    /\ driver.sent[driver.visits[j].last + 1].id = driver.visits[j].id

\* C19: no move command is issued for a cue whose change result is skip:
\* its own processing sends nothing, and its parent's child-placement step
\* does not move it, whether the child is unnumbered or has a number relative
\* to its parent's or an absolute one.
C19_SkippedCuesNeverMoved ==
    \A j \in SkippedVisits :
        /\ driver.visits[j].first = driver.visits[j].last
        /\ ~MovedByParent(j)

\* what holds of C19: a skipped cue is not moved by its own processing, nor
\* by its parent when the parent finds the child's verdict under the raw
\* number (or positional key) of the child
C19_SkippedCuesNotMovedUnderRawKey ==
    \A j \in SkippedVisits :
        /\ driver.visits[j].first = driver.visits[j].last
        /\ driver.visits[j].key # "3.2" => ~MovedByParent(j)

\* C20: for a cue whose change result is skip the driver returns the
\* result's existing remote ID and no error, sends no command in doing so,
\* and, if the cue is numbered, records its number with that ID in the
\* mapping of the pass.
C20_SkipReturnsExistingID ==
    \A j \in SkippedVisits :
        /\ driver.visits[j].id = driver.visits[j].existingID
        /\ driver.visits[j].err = ""
        /\ driver.visits[j].first = driver.visits[j].last
        /\ ~Contains(driver.visits[j].key, "@") =>
              /\ driver.visits[j].key \in DOMAIN driver.NumberToID
              /\ driver.NumberToID[driver.visits[j].key] = driver.visits[j].existingID

\* a pass ended in which a numbered child of a created group was skipped
C20_Witness ==
    /\ transmitPc = "done"
    /\ \E j \in SkippedVisits :
          /\ driver.visits[j].key = "7.0"
          /\ driver.visits[j].id = "X1"
          /\ driver.visits[j].first > 0
    /\ "7.0" \in DOMAIN driver.NumberToID
    /\ driver.created > 0

\* the commands the visit j sent itself, those of its sub-cues' visits excluded
OwnCommands(j) ==
    {n \in (driver.visits[j].first + 1)..driver.visits[j].last :
        ~\E k \in 1..(j - 1) :
            /\ driver.visits[k].first >= driver.visits[j].first
            /\ n > driver.visits[k].first
            /\ n <= driver.visits[k].last}

\* the calls of the per-cue handler that updated a cue
UpdateVisits ==
    {j \in 1..Len(driver.visits) :
        /\ driver.visits[j].action = "update"
        /\ driver.visits[j].existingID # ""
        /\ driver.visits[j].err = ""}

\* the field of the change result a set command writes
FieldOfProperty(property) == IF property = "file" THEN "fileTarget" ELSE property

\* C21: for a cue whose action is update the pass sends set commands for the
\* cue's changed fields only, and neither a create nor a move of that cue
C21_UpdateSetsChangedFieldsOnly ==
    \A j \in UpdateVisits :
        /\ \A n \in OwnCommands(j) :
              /\ driver.sent[n].op # "new"
              /\ (driver.sent[n].op = "move" => driver.sent[n].id # driver.visits[j].id)
              /\ driver.sent[n].op = "set" /\ driver.sent[n].id = driver.visits[j].id
                    => FieldOfProperty(driver.sent[n].property)
                          \in DOMAIN passResults[driver.visits[j].key].ModifiedFields
        /\ ~MovedByParent(j)

\* C21, the part that holds: an updated cue is never created, and the sets
\* its own visit sends all address the remote ID of its change result
C21_UpdateNeverCreates ==
    \A j \in UpdateVisits :
        /\ driver.visits[j].id = driver.visits[j].existingID
        /\ \A n \in OwnCommands(j) :
              /\ driver.sent[n].op # "new"
              /\ driver.sent[n].op = "set" => driver.sent[n].id = driver.visits[j].existingID

\* the commands that set a target reference
TargetCommands ==
    {n \in 1..Len(driver.sent) :
        /\ driver.sent[n].op = "set"
        /\ driver.sent[n].property \in {"cueTargetNumber", "cueTargetID"}}

\* C22: no target reference is set on any cue before every cue of the file
\* has been processed; the targets are set by the final step only
C22_TargetsSetAfterAllCues ==
    \A n \in TargetCommands :
        /\ cueCursor > Len(fileCues)
        /\ \A j \in 1..Len(driver.visits) : driver.visits[j].last < n

\* C22, for the cues a pass creates: a target reference sent while the cues
\* are processed is a set of an updated cue
C22_CreatedCuesTargetedLast ==
    \A n \in TargetCommands :
        \/ /\ cueCursor > Len(fileCues)
           /\ \A j \in 1..Len(driver.visits) : driver.visits[j].last < n
        \/ \E j \in UpdateVisits : n \in OwnCommands(j)
        \/ \E j \in 1..Len(driver.visits) :
              /\ driver.visits[j].action = "update"
              /\ driver.visits[j].err # ""
              /\ n = driver.visits[j].last

\* the commands that move a cue under a parent
MoveCommands == {n \in 1..Len(driver.sent) : driver.sent[n].op = "move"}

\* the remote ID of the cue the visit j handles, once its create or update
\* has returned: the ID the remote gave the cue the visit created, or the
\* remote ID of the update's change result
HandledID(j) ==
    LET first == driver.visits[j].first + 1
    IN  IF first <= Len(driver.sent) /\ driver.sent[first].op = "new"
        THEN "ID" \o ToString(Cardinality({m \in 1..first : driver.sent[m].op = "new"}))
        ELSE IF driver.visits[j].action = "update" THEN driver.visits[j].existingID
        ELSE ""

\* the move n is sent by the visit of its parent, after every command that
\* creates or updates the parent
ParentReady(n) ==
    \E j \in 1..Len(driver.visits) :
        /\ n \in OwnCommands(j)
        /\ driver.sent[n].value = HandledID(j)
        /\ \A m \in OwnCommands(j) :
              (\/ driver.sent[m].op = "new"
               \/ driver.sent[m].op = "set" /\ driver.sent[m].id = HandledID(j))
              => m < n

\* C23: a child is moved under a parent only after the parent's create or
\* update has returned a non-empty remote ID
C23_ParentExistsBeforeMove ==
    \A n \in MoveCommands :
        /\ driver.sent[n].value # ""
        /\ ParentReady(n)

\* a pass that moved a created child under the group it created, and one
\* that moved a child under an updated group
C23_Witness ==
    /\ transmitPc = "done"
    /\ \E n \in MoveCommands : driver.sent[n].value = "ID1" /\ driver.sent[n].id = "ID2"

C23_WitnessUpdatedParent ==
    /\ transmitPc = "done"
    /\ \E n \in MoveCommands : driver.sent[n].value = "X1" /\ driver.sent[n].id = "ID1"

\* the position of the cue of visit j in the array the indexer finds it in:
\* the index its parent's loop passed, or its place among the top-level cues
PositionOfVisit(j) ==
    IF driver.visits[j].index >= 0 THEN driver.visits[j].index
    ELSE Cardinality({k \in 1..j : driver.visits[k].index < 0}) - 1

\* the identity key the indexer assigns to the cue of visit j
IndexerKey(j) ==
    IF driver.visits[j].number # "" THEN driver.visits[j].number
    ELSE buildPositionKey(driver.visits[j].parent, PositionOfVisit(j),
                          driver.visits[j].type, driver.visits[j].name)

\* the visits of cues whose indexer key is classified skip or update
ClassifiedVisits ==
    {j \in 1..Len(driver.visits) :
        /\ IndexerKey(j) \in DOMAIN passResults
        /\ passResults[IndexerKey(j)].Action \in {"skip", "update"}}

\* C28: the driver looks a cue's change result up under the key the indexer
\* gave the cue, so a cue classified skip or update, a top-level numberless
\* one included, is not created by the pass
C28_ClassifiedCuesNotCreated ==
    \A j \in ClassifiedVisits :
        /\ driver.visits[j].key = IndexerKey(j)
        /\ \A n \in OwnCommands(j) : driver.sent[n].op # "new"

\* C28, for numbered cues and the children of a cue: the lookup key is the
\* indexer's key
C28_NestedAndNumberedKeysAgree ==
    \A j \in ClassifiedVisits :
        driver.visits[j].number # "" \/ driver.visits[j].index >= 0
            => /\ driver.visits[j].key = IndexerKey(j)
               /\ \A n \in OwnCommands(j) : driver.sent[n].op # "new"

\* the calls of the per-cue handler that returned an error
FailedVisits == {j \in 1..Len(driver.visits) : driver.visits[j].err # ""}

\* C30: when the processing of a cue fails, no command is sent for a later
\* cue, the targets are not set and no cache snapshot is written; a snapshot
\* is written only after the whole pass succeeded
C30_FailureStopsThePass ==
    /\ \A j \in FailedVisits :
          /\ driver.visits[j].last = Len(driver.sent)
          /\ transmitPc = "failed"
          /\ ~driver.cacheWritten
    /\ driver.err # "" => transmitPc = "failed" /\ ~driver.cacheWritten
    /\ driver.cacheWritten =>
          /\ transmitPc = "returned"
          /\ cueCursor > Len(fileCues)
          /\ FailedVisits = {}

\* a pass that failed on its first cue with a second one left, and a pass
\* that succeeded and wrote the snapshot
C30_Witness ==
    /\ transmitPc = "failed"
    /\ FailedVisits # {}
    /\ Len(driver.sent) > 0
    /\ cueCursor < Len(fileCues)
    /\ GetString(fileCues[Len(fileCues)], "cueTargetNumber") # ""

C30_WitnessSaved ==
    /\ transmitPc = "returned"
    /\ driver.cacheWritten
    /\ Len(driver.visits) > 1

(***************************************************************************)
(* Connection: Init, the memoized queries and successive passes            *)
(* The remote system's cue lists and video stages are known by a version   *)
(* number that grows with every change made to them.                       *)
(***************************************************************************)

MaxInits == 2

MaxPasses == 2

\* IsConnected
IsConnected(c) == c.initialized /\ c.workspace_id # ""

\* a query result is handed to its caller during the call during
serve(c, query, data, during) ==
    [c EXCEPT !.got = data, !.err = "",
              !.served = @ \cup {[query |-> query, version |-> data.version,
                                  obtained |-> data.obtained, during |-> during,
                                  remote |-> IF query = "videoStages"
                                             THEN c.remoteStages ELSE c.remoteLists]}]

\* getCueLists; replyOk: the query is answered with a data array
getCueLists(c, during, replyOk) ==
    IF c.cueListsCache.cached THEN serve(c, "cueLists", c.cueListsCache, during)
    ELSE IF c.workspace_id = ""
    THEN [c EXCEPT !.got = NilData, !.err = "workspace ID is required but not available"]
    ELSE IF ~replyOk THEN [c EXCEPT !.got = NilData, !.err = ""]
    ELSE serve([c EXCEPT !.cueListsCache = QueryData(c.remoteLists, c.remoteInboxes, during)],
               "cueLists", QueryData(c.remoteLists, c.remoteInboxes, during), during)

\* the mutant of getVideoStages that queries the remote system on every call
getVideoStagesUncached(c, during, replyOk) ==
    IF c.workspace_id = ""
    THEN [c EXCEPT !.got = NilData, !.err = "workspace ID is required"]
    ELSE IF ~replyOk
    THEN [c EXCEPT !.got = NilData, !.err = "no reply received from QLab"]
    ELSE serve([c EXCEPT !.videoStagesCache = QueryData(c.remoteStages, 0, during)],
               "videoStages", QueryData(c.remoteStages, 0, during), during)

\* getVideoStages
getVideoStages(c, during, replyOk) ==
    IF c.videoStagesCache.cached THEN serve(c, "videoStages", c.videoStagesCache, during)
    ELSE IF c.workspace_id = ""
    THEN [c EXCEPT !.got = NilData, !.err = "workspace ID is required"]
    ELSE IF ~replyOk
    THEN [c EXCEPT !.got = NilData, !.err = "no reply received from QLab"]
    ELSE serve([c EXCEPT !.videoStagesCache = QueryData(c.remoteStages, 0, during)],
               "videoStages", QueryData(c.remoteStages, 0, during), during)

\* ensureCuejitsuInbox and the assignment "q.inboxID, err = ..." of Init;
\* createOk: the remote system creates and names the new cue list
ensureCuejitsuInbox(c, during, replyOk, createOk) ==
    LET found(f) ==
            IF f.err # "" THEN [f EXCEPT !.inboxID = ""]
            ELSE IF f.got.cached /\ f.got.inboxes > 0 THEN [f EXCEPT !.inboxID = "inbox"]
            ELSE IF createOk
            THEN [f EXCEPT !.inboxID = "inbox", !.remoteInboxes = @ + 1,
                           !.remoteLists = @ + 1]
            ELSE [f EXCEPT !.inboxID = "", !.err = "error creating Cuejitsu Inbox"]
    IN  IF c.workspace_id = ""
        THEN [c EXCEPT !.inboxID = "",
                       !.err = "workspace ID is required for inbox management but not available"]
        ELSE found(getCueLists(c, during, replyOk))

\* indexExistingCues: the query; the numbers it tracks are the driver's
indexExistingCues(c, during, replyOk) ==
    IF c.workspace_id = ""
    THEN [c EXCEPT !.err = "workspace ID is required for cue indexing but not available"]
    ELSE getCueLists(c, during, replyOk)

\* the mutant of WorkspaceInit that does not look for "badpass"
WorkspaceInitNoBadpass(c, reply, replyOk, createOk) ==
    LET during == <<"init", c.inits + 1>>
        failed(message) == [c EXCEPT !.inits = @ + 1, !.initReply = reply,
                                     !.initErr = message,
                                     !.before = [initialized |-> c.initialized,
                                                 workspace_id |-> c.workspace_id]]
        indexed(i) == [i EXCEPT !.err = "", !.initErr = ""]
    IN  CASE reply.kind = "none" -> failed("no reply received from QLab")
          [] reply.kind = "notString" -> failed("invalid reply format from QLab")
          [] reply.kind = "unparsable" -> failed("failed to parse connection reply")
          [] OTHER ->
               IF reply.status = "error"
               THEN (IF reply.error = "timeout waiting for reply from QLab"
                     THEN failed("connection timeout")
                     ELSE failed("QLab connection failed"))
               ELSE IF reply.status # "ok"
               THEN failed("unexpected connection status: " \o reply.status)
               ELSE indexed(indexExistingCues(
                        ensureCuejitsuInbox(
                            [failed("") EXCEPT !.workspace_id = reply.workspace_id,
                                               !.initialized = TRUE],
                            during, replyOk, createOk),
                        during, replyOk))

\* Init: the connect reply is checked, the workspace ID is stored, the inbox
\* is ensured and the existing cues are indexed (the errors of the last two
\* are logged); initErr is the error returned, "" for nil
WorkspaceInit(c, reply, replyOk, createOk) ==
    LET during == <<"init", c.inits + 1>>
        failed(message) == [c EXCEPT !.inits = @ + 1, !.initReply = reply,
                                     !.initErr = message,
                                     !.before = [initialized |-> c.initialized,
                                                 workspace_id |-> c.workspace_id]]
        indexed(i) == [i EXCEPT !.err = "", !.initErr = ""]
    IN  CASE reply.kind = "none" -> failed("no reply received from QLab")
          [] reply.kind = "notString" -> failed("invalid reply format from QLab")
          [] reply.kind = "unparsable" -> failed("failed to parse connection reply")
          [] OTHER ->
               IF reply.status = "error"
               THEN (IF reply.error = "timeout waiting for reply from QLab"
                     THEN failed("connection timeout")
                     ELSE failed("QLab connection failed"))
               ELSE IF reply.data = "badpass"
               THEN failed("QLab authentication failed - incorrect passcode")
               ELSE IF reply.status # "ok"
               THEN failed("unexpected connection status: " \o reply.status)
               ELSE indexed(indexExistingCues(
                        ensureCuejitsuInbox(
                            [failed("") EXCEPT !.workspace_id = reply.workspace_id,
                                               !.initialized = TRUE],
                            during, replyOk, createOk),
                        during, replyOk))

\* the replies to /connect: none, one that is no string or no JSON, the
\* timeout payload of sendWithRetry, and JSON replies of every status with and
\* without "badpass" and a workspace ID
ConnectReplies ==
    {ConnectReply(k, "", "", "", "") : k \in {"none", "notString", "unparsable"}}
    \cup {ConnectReply("json", "error", "", e, "") :
             e \in {"timeout waiting for reply from QLab", "bad address"}}
    \cup {ConnectReply("json", st, d, "", w) :
             st \in {"ok", "error", "denied"}, d \in {"", "badpass"},
             w \in {"", "W1"}}

\* the workspace of NewWorkspace, on a remote system with or without an inbox
InitConn ==
    /\ RecIdle
    /\ CoordinatorIdle
    /\ wasConnected = FALSE
    /\ driver = NewDriver(NoIDs, FALSE, 0)
    /\ fileCues = <<>>
    /\ passResults = EmptyMap
    /\ cueCursor = 0
    /\ transmitPc = "idle"
    /\ \E inboxes \in {0, 1} : conn = [NewConn EXCEPT !.remoteInboxes = inboxes]
    /\ fnArgs = <<>>
    /\ fnResult = <<>>

\* q.Init(passcode)
ConnInit ==
    /\ conn.inits < MaxInits
    /\ \E reply \in ConnectReplies, replyOk \in BOOLEAN, createOk \in BOOLEAN :
          conn' = WorkspaceInit(conn, reply, replyOk, createOk)
    /\ UNCHANGED <<driver, fileCues, passResults, cueCursor, transmitPc>>
    /\ UNCHANGED <<recVars, oscVars, fnArgs, fnResult>>

\* one TransmitWorkspaceData on the connected workspace: the comparison
\* queries the current state (queryCurrentWorkspaceState, not memoized), the
\* driver changes the remote cue lists (mutates) and, for a text cue created
\* without a stage (textCue), asks for the video stages
Pass ==
    /\ IsConnected(conn)
    /\ conn.passes < MaxPasses
    /\ \E queryOk \in BOOLEAN, mutates \in BOOLEAN, textCue \in BOOLEAN, stagesOk \in BOOLEAN :
          LET during == <<"pass", conn.passes + 1>>
              queried(c) ==
                  IF queryOk
                  THEN serve(c, "cueLists", QueryData(c.remoteLists, c.remoteInboxes, during),
                             during)
                  ELSE c
              staged(c) == IF textCue THEN getVideoStages(c, during, stagesOk) ELSE c
              mutated(c) ==
                  IF mutates \/ textCue THEN [c EXCEPT !.remoteLists = @ + 1] ELSE c
          IN  conn' = [mutated(staged(queried([conn EXCEPT !.passes = @ + 1])))
                          EXCEPT !.got = NilData, !.err = ""]
    /\ UNCHANGED <<driver, fileCues, passResults, cueCursor, transmitPc>>
    /\ UNCHANGED <<recVars, oscVars, fnArgs, fnResult>>

\* the operator changes the video stages of the remote workspace, once
StagesChange ==
    /\ conn.remoteStages = 0
    /\ conn' = [conn EXCEPT !.remoteStages = @ + 1]
    /\ UNCHANGED <<driver, fileCues, passResults, cueCursor, transmitPc>>
    /\ UNCHANGED <<recVars, oscVars, fnArgs, fnResult>>

NextConn == ConnInit \/ Pass \/ StagesChange

SpecConn == InitConn /\ [][NextConn]_vars

\* C34: a memoized query result (cue lists, video stages) obtained during
\* one pass or during initialization is never served to a later pass on the
\* same connection: whatever a pass is handed was queried during that pass.
C34_MemoNotServedToLaterPass ==
    \A s \in conn.served :
        s.during[1] = "pass" => s.obtained = s.during

\* C34, the part that holds: the cue-list data every pass compares against
\* was queried during that pass, after the mutations of the passes before
C34_PassQueriesCueListsAfresh ==
    \A s \in conn.served :
        (s.query = "cueLists" /\ s.during[1] = "pass") =>
            /\ s.obtained = s.during
            /\ s.version = s.remote

\* the last Init was made on a workspace that was not initialized
FreshInit ==
    /\ conn.inits > 0
    /\ ~conn.before.initialized
    /\ conn.before.workspace_id = ""

\* the connect reply of the last Init has status ok and is no badpass reply
ConnectAccepted ==
    /\ conn.initReply.kind = "json"
    /\ conn.initReply.status = "ok"
    /\ conn.initReply.data # "badpass"

(* C38: a workspace becomes initialized (workspace ID set, IsConnected     *)
(* true) only when the connect reply has status ok and is not a badpass    *)
(* reply; for an error status, a badpass reply, a non-ok status or a       *)
(* timeout, Init returns an error and leaves a fresh workspace             *)
(* uninitialized with no workspace ID.                                     *)
C38_InitializedOnlyOnOkReply ==
    FreshInit =>
        /\ (conn.initialized \/ conn.workspace_id # "" \/ IsConnected(conn))
              => ConnectAccepted /\ conn.initErr = ""
        /\ ~ConnectAccepted =>
              /\ conn.initErr # ""
              /\ ~conn.initialized
              /\ conn.workspace_id = ""
              /\ ~IsConnected(conn)
        /\ (ConnectAccepted /\ conn.initReply.workspace_id # "") =>
              /\ IsConnected(conn)
              /\ conn.workspace_id = conn.initReply.workspace_id

\* a fresh workspace got a badpass reply with status ok and stayed
\* uninitialized
C38_Witness ==
    /\ FreshInit
    /\ conn.initReply = ConnectReply("json", "ok", "badpass", "", "W1")
    /\ conn.initErr # ""
    /\ ~conn.initialized

\* a fresh workspace got the reply ok for the workspace W1 and is connected
C38_WitnessConnected ==
    /\ FreshInit
    /\ conn.initReply = ConnectReply("json", "ok", "", "", "W1")
    /\ IsConnected(conn)
    /\ conn.inboxID = "inbox"

(***************************************************************************)
(* Disconnect detection: the end of sendWithRetry, statement by statement, *)
(* for flows that use one workspace at once.  consecutiveErrors and        *)
(* wasConnected are plain fields that every flow reads and writes without  *)
(* a lock; the attempts, the registry and the listener are left out: a     *)
(* waiting call gets its reply or runs out of attempts.                    *)
(***************************************************************************)

\* a workspace with or without an earlier reply and with or without a callback
InitDisc ==
    /\ RecIdle
    /\ DriverIdle
    /\ fnArgs = <<>>
    /\ fnResult = <<>>
    /\ replyHandlers = NoHandlers
    /\ replyHandlersMux = ""
    /\ closePc = "open"
    /\ requestCounter = 0
    /\ consecutiveErrors = 0
    /\ wasConnected \in BOOLEAN
    /\ maxRetries = 0
    /\ timeout = 1
    /\ onDisconnect \in BOOLEAN
    /\ call = [c \in Callers |-> IdleCall]
    /\ requests = {}
    /\ replies = {}
    /\ listener = IdleListener
    /\ chanCounter = 0
    /\ disconnectCalls = 0
    /\ timeoutStreak = 0
    /\ streakNotified = 0
    /\ lastReturn = NoReturn

\* a flow calls Send / SendWithArgs and waits in the select of its last attempt
BeginCall(c) ==
    /\ call[c].pc = "idle"
    /\ call[c].calls < MaxCalls
    /\ call' = [call EXCEPT ![c] = [IdleCall EXCEPT !.pc = "wait", !.address = "/cueLists",
                                                    !.calls = call[c].calls + 1,
                                                    !.attemptsMade = 1]]
    /\ UNCHANGED <<replyHandlers, requestCounter, consecutiveErrors, wasConnected,
                   maxRetries, timeout, onDisconnect, requests, replies, listener,
                   chanCounter, disconnectCalls, timeoutStreak, streakNotified,
                   lastReturn, replyHandlersMux, closePc>>
    /\ UNCHANGED <<recVars, drvVars, fnArgs, fnResult>>

\* case result := <-reply: "q.consecutiveErrors = 0; q.wasConnected = true; return result"
ReplyResets(c) ==
    /\ call[c].pc = "wait"
    /\ call' = [call EXCEPT ![c] = afterReply(call[c], OkReply)]
    /\ consecutiveErrors' = 0
    /\ wasConnected' = TRUE
    /\ timeoutStreak' = 0
    /\ streakNotified' = 0
    /\ lastReturn' = [kind |-> "reply", connectedBefore |-> wasConnected,
                      notified |-> FALSE]
    /\ UNCHANGED <<replyHandlers, requestCounter, maxRetries, timeout, onDisconnect,
                   requests, replies, listener, chanCounter, disconnectCalls,
                   replyHandlersMux, closePc>>
    /\ UNCHANGED <<recVars, drvVars, fnArgs, fnResult>>

\* the last attempt timed out: "q.consecutiveErrors++"
CountFailure(c) ==
    /\ call[c].pc = "wait"
    /\ call' = [call EXCEPT ![c].pc = "counted"]
    /\ consecutiveErrors' = consecutiveErrors + 1
    /\ timeoutStreak' = timeoutStreak + 1
    /\ UNCHANGED <<replyHandlers, requestCounter, wasConnected, maxRetries, timeout,
                   onDisconnect, requests, replies, listener, chanCounter,
                   disconnectCalls, streakNotified, lastReturn, replyHandlersMux,
                   closePc>>
    /\ UNCHANGED <<recVars, drvVars, fnArgs, fnResult>>

\* "if q.wasConnected { ... if q.consecutiveErrors >= 2 && q.onDisconnect != nil {":
\* the callback is due, or the call returns the timeout payload
CheckDisconnect(c) ==
    /\ call[c].pc = "counted"
    /\ IF shouldNotify(wasConnected, consecutiveErrors, onDisconnect)
       THEN /\ call' = [call EXCEPT ![c].pc = "notify"]
            /\ UNCHANGED lastReturn
       ELSE /\ call' = [call EXCEPT ![c].pc = "idle", ![c].result = TimeoutPayload]
            /\ lastReturn' = [kind |-> "timeout", connectedBefore |-> wasConnected,
                              notified |-> FALSE]
    /\ UNCHANGED <<replyHandlers, requestCounter, consecutiveErrors, wasConnected,
                   maxRetries, timeout, onDisconnect, requests, replies, listener,
                   chanCounter, disconnectCalls, timeoutStreak, streakNotified,
                   replyHandlersMux, closePc>>
    /\ UNCHANGED <<recVars, drvVars, fnArgs, fnResult>>

\* "q.onDisconnect()"
InvokeOnDisconnect(c) ==
    /\ call[c].pc = "notify"
    /\ call' = [call EXCEPT ![c].pc = "clear"]
    /\ disconnectCalls' = disconnectCalls + 1
    /\ streakNotified' = streakNotified + 1
    /\ UNCHANGED <<replyHandlers, requestCounter, consecutiveErrors, wasConnected,
                   maxRetries, timeout, onDisconnect, requests, replies, listener,
                   chanCounter, timeoutStreak, lastReturn, replyHandlersMux, closePc>>
    /\ UNCHANGED <<recVars, drvVars, fnArgs, fnResult>>

\* "q.wasConnected = false", and the call returns the timeout payload
ClearConnected(c) ==
    /\ call[c].pc = "clear"
    /\ call' = [call EXCEPT ![c].pc = "idle", ![c].result = TimeoutPayload]
    /\ wasConnected' = FALSE
    /\ lastReturn' = [kind |-> "timeout", connectedBefore |-> TRUE, notified |-> TRUE]
    /\ UNCHANGED <<replyHandlers, requestCounter, consecutiveErrors, maxRetries,
                   timeout, onDisconnect, requests, replies, listener, chanCounter,
                   disconnectCalls, timeoutStreak, streakNotified, replyHandlersMux,
                   closePc>>
    /\ UNCHANGED <<recVars, drvVars, fnArgs, fnResult>>

NextDisc ==
    \E c \in Callers :
        \/ BeginCall(c)
        \/ ReplyResets(c)
        \/ CountFailure(c)
        \/ CheckDisconnect(c)
        \/ InvokeOnDisconnect(c)
        \/ ClearConnected(c)

SpecDisc == InitDisc /\ [][NextDisc]_vars

(* C39: any successful reply resets the consecutive-failure count to zero, *)
(* and the disconnect callback is invoked at most once between two         *)
(* successful replies, however many further requests time out.             *)
C39_CallbackOncePerOutage ==
    /\ (lastReturn.kind = "reply" /\ timeoutStreak = 0) => consecutiveErrors = 0
    /\ streakNotified <= 1

\* two flows timed out together and each invoked the callback
C39_CallbackInvokedTwice ==
    /\ streakNotified = 2
    /\ disconnectCalls = 2
    /\ timeoutStreak = 2

\* one flow: three calls timed out in a row and the callback was invoked at the second
C39_ThirdTimeoutSilent ==
    /\ timeoutStreak = 3
    /\ streakNotified = 1
    /\ lastReturn.kind = "timeout"
    /\ ~lastReturn.notified

(***************************************************************************)
(* Conflict resolution: the interactive resolver and repeated applications *)
(***************************************************************************)

MaxBatches == 2

\* fmt.Sprintf("conflict-req-%d", len(conflicts))
RequestIDOf(batch) == "conflict-req-" \o ToString(Cardinality(batch))

\* ConflictResolutionRequest
ConflictResolutionRequest(batch, requestID) ==
    [Conflicts |-> batch, RequestID |-> requestID]

\* ConflictResolutionResponse
ConflictResolutionResponse(requestID, decisions) ==
    [RequestID |-> requestID, Resolutions |-> decisions]

\* the responses the front end may submit: any map of choices under either
\* of the request IDs the batches of this model produce
Responses ==
    {ConflictResolutionResponse("conflict-req-" \o ToString(n), d) :
        n \in 1..2,
        d \in UNION {[ks -> {ChoiceUseSource, ChoiceKeepQLab, ChoiceSkip}] :
                        ks \in SUBSET ComparisonKeys}}

\* the mutant of resolveSend that hands the sender one request per conflict
resolveSendEach(r, batch, sendOk) ==
    LET id == RequestIDOf(batch)
        each == CHOOSE q \in [1..Cardinality(batch) -> {ConflictResolutionRequest({c}, id) : c \in batch}] :
                    \A i, j \in DOMAIN q : i # j => q[i] # q[j]
    IN  [r EXCEPT !.conflicts = batch, !.requestID = id,
                  !.sent = each,
                  !.calls = @ + 1,
                  !.pc = IF sendOk THEN "waiting" ELSE "returned",
                  !.returned = ResolveReturn(NoResolutions,
                      IF sendOk THEN ""
                      ELSE "failed to send conflict resolution request")]

\* ResolveConflicts up to the receive: the request is built from the whole
\* slice and handed to requestSender; its failure ends the call
resolveSend(r, batch, sendOk) ==
    LET id == RequestIDOf(batch)
    IN  [r EXCEPT !.conflicts = batch, !.requestID = id,
                  !.sent = <<ConflictResolutionRequest(batch, id)>>,
                  !.calls = @ + 1,
                  !.pc = IF sendOk THEN "waiting" ELSE "returned",
                  !.returned = ResolveReturn(NoResolutions,
                      IF sendOk THEN ""
                      ELSE "failed to send conflict resolution request")]

\* ResolveConflicts from the receive on: the response at the head of the
\* channel is taken; its Resolutions are returned if its RequestID is the
\* request's
resolveReceive(r) ==
    LET response == Head(r.responseChannel)
    IN  [r EXCEPT !.responseChannel = Tail(@),
                  !.pc = "returned",
                  !.returned =
                      IF response.RequestID # r.requestID
                      THEN ResolveReturn(NoResolutions, "request ID mismatch")
                      ELSE ResolveReturn(response.Resolutions, "")]

\* a comparison with a cache and remote data that differ, without a scope
\* tree, in which at least one cue is in conflict
InitRes ==
    /\ sourceCueData = NilWorkspace
    /\ hasCacheFile = FALSE
    /\ cachedWorkspace = NilWorkspace
    /\ wasConnected = FALSE
    /\ queryOutcome = "ok"
    /\ fallbackOk = FALSE
    /\ currentWorkspace = NilWorkspace
    /\ scopeResult = NoScope
    /\ comparison \in {c \in ComparisonChoices :
                          /\ c.HasCache /\ c.HasQLabData /\ ~c.CacheMatchesQLab
                          /\ c.WorkspaceScope = NoScope
                          /\ IdentifyConflicts(c) # {}}
    /\ conflicts = IdentifyConflicts(comparison)
    /\ resolutions = NoResolutions
    /\ resolvedFrom = NoComparison
    /\ resolver = NewInteractiveResolver
    /\ recPc = "identified"
    /\ CoordinatorIdle
    /\ DriverIdle
    /\ fnArgs = <<>>
    /\ fnResult = <<>>

\* resolver.ResolveConflicts(conflicts) is called with conflicts of the
\* comparison and runs up to the receive
ResolveConflictsSend ==
    /\ resolver.pc = "idle"
    /\ resolver.calls < MaxBatches
    /\ \E batch \in SUBSET conflicts \ {{}}, sendOk \in BOOLEAN :
          resolver' = resolveSend(resolver, batch, sendOk)
    /\ UNCHANGED <<sourceCueData, hasCacheFile, cachedWorkspace, queryOutcome,
                   fallbackOk, currentWorkspace, scopeResult, comparison, conflicts,
                   resolutions, resolvedFrom, recPc>>
    /\ UNCHANGED <<oscVars, drvVars, fnArgs, fnResult>>

\* resolver.SubmitResolution(response), called by the front end: the send
\* blocks while the channel holds a response
SubmitResolution ==
    /\ Len(resolver.responseChannel) < 1
    /\ \E response \in Responses :
          resolver' = [resolver EXCEPT !.responseChannel = Append(@, response)]
    /\ UNCHANGED <<sourceCueData, hasCacheFile, cachedWorkspace, queryOutcome,
                   fallbackOk, currentWorkspace, scopeResult, comparison, conflicts,
                   resolutions, resolvedFrom, recPc>>
    /\ UNCHANGED <<oscVars, drvVars, fnArgs, fnResult>>

\* ResolveConflicts receives a response and returns
ResolveConflictsReceive ==
    /\ resolver.pc = "waiting"
    /\ Len(resolver.responseChannel) > 0
    /\ resolver' = resolveReceive(resolver)
    /\ UNCHANGED <<sourceCueData, hasCacheFile, cachedWorkspace, queryOutcome,
                   fallbackOk, currentWorkspace, scopeResult, comparison, conflicts,
                   resolutions, resolvedFrom, recPc>>
    /\ UNCHANGED <<oscVars, drvVars, fnArgs, fnResult>>

\* the caller takes what ResolveConflicts returned: ApplyResolutions with the
\* decision map (nothing on an error), and the conflicts are identified anew
ApplyReturned ==
    /\ resolver.pc = "returned"
    /\ resolver' = [resolver EXCEPT !.pc = "idle"]
    /\ \E d \in {resolver.returned.Resolutions} :
          /\ resolutions' = d
          /\ comparison' = ApplyResolutions(comparison, d)
    /\ resolvedFrom' = comparison
    /\ conflicts' = IdentifyConflicts(comparison')
    /\ recPc' = "resolved"
    /\ UNCHANGED <<sourceCueData, hasCacheFile, cachedWorkspace, queryOutcome,
                   fallbackOk, currentWorkspace, scopeResult>>
    /\ UNCHANGED <<oscVars, drvVars, fnArgs, fnResult>>

NextRes ==
    ResolveConflictsSend \/ SubmitResolution \/ ResolveConflictsReceive \/ ApplyReturned

SpecRes == InitRes /\ [][NextRes]_vars

\* ResolveConflicts has returned a decision map
Resolved == resolver.pc = "returned" /\ resolver.returned.err = ""

\* the identity keys of the conflicts of the batch of the call
BatchKeys == {c.CueNumber : c \in resolver.conflicts}

(* C35: ResolveConflicts, given a batch of conflicts, sends the whole      *)
(* batch in one request and returns a decision map that holds exactly one  *)
(* choice for each conflict of that batch.                                 *)
C35_OneChoicePerConflictOfBatch ==
    /\ resolver.pc \in {"waiting", "returned"} =>
          resolver.sent =
              <<ConflictResolutionRequest(resolver.conflicts, resolver.requestID)>>
    /\ Resolved =>
          /\ DOMAIN resolver.returned.Resolutions = BatchKeys
          /\ \A k \in BatchKeys :
                resolver.returned.Resolutions[k]
                    \in {ChoiceUseSource, ChoiceKeepQLab, ChoiceSkip}

\* the part of C35 that the code ensures by itself: one request per call,
\* holding the whole batch, and a returned map that is the Resolutions of a
\* response that carried the request's ID
C35_WholeBatchInOneRequest ==
    resolver.pc \in {"waiting", "returned"} =>
        /\ Len(resolver.sent) = 1
        /\ resolver.sent[1].Conflicts = resolver.conflicts
        /\ resolver.sent[1].RequestID = RequestIDOf(resolver.conflicts)

\* the second call, for the conflict on cue 2, returns the decision made for cue 1
C35_StaleDecisionReturned ==
    /\ Resolved
    /\ resolver.calls = 2
    /\ BatchKeys = {"2"}
    /\ DOMAIN resolver.returned.Resolutions = {"1"}

\* comparison.CurrentQLabData as the extraction reads it: for each identity
\* key of the remote tree, the string fields among name, fileTarget, notes
\* and colorName the cue holds
CurrentQLabData == [k \in ComparisonKeys |-> [name |-> "Remote " \o k]]

\* ExtractQLabUpdates: nothing without chosen cues or remote data; else the
\* fields of every remote cue whose identity key is in the chosen-remote set
\* and that holds one of the four fields
ExtractQLabUpdates(cmp, currentQLabData) ==
    IF cmp.QLabChosenCues = {} \/ DOMAIN currentQLabData = {}
    THEN EmptyMap
    ELSE [k \in {x \in DOMAIN currentQLabData :
                    x \in cmp.QLabChosenCues /\ DOMAIN currentQLabData[x] # {}}
            |-> currentQLabData[k]]

(* C40: after any sequence of resolution applications, every identity key  *)
(* in the chosen-remote set has action skip with the keep-remote reason; a *)
(* key that is later resolved with use-source or skip is no longer in the  *)
(* set, so remote-value extraction never returns values for a cue that     *)
(* will be overwritten from source.                                        *)
C40_ChosenRemoteKeysStayKept ==
    /\ \A k \in comparison.QLabChosenCues :
          /\ k \in DOMAIN comparison.CueResults
          /\ comparison.CueResults[k].Action = "skip"
          /\ comparison.CueResults[k].Reason = "User chose to keep QLab version"
    /\ (recPc = "resolved") =>
          \A k \in DOMAIN resolutions \cap DOMAIN comparison.CueResults :
              resolutions[k] \in {ChoiceUseSource, ChoiceSkip} =>
                  k \notin comparison.QLabChosenCues
    /\ \A k \in DOMAIN ExtractQLabUpdates(comparison, CurrentQLabData) :
          comparison.CueResults[k].Action # "update"

\* the part of C40 that holds of the first application to a comparison: its
\* chosen-remote set holds the keys resolved with keep-remote, all skipped
C40_FirstApplicationKeepsOnlyKeptKeys ==
    (recPc = "resolved" /\ resolvedFrom.QLabChosenCues = {}) =>
        \A k \in comparison.QLabChosenCues :
            /\ k \in DOMAIN resolutions
            /\ resolutions[k] = ChoiceKeepQLab
            /\ comparison.CueResults[k].Action = "skip"
            /\ comparison.CueResults[k].Reason = "User chose to keep QLab version"

\* cue 1 was resolved keep-remote, then use-source: it is updated from the
\* source and the extraction returns its remote values
C40_OverwrittenCueExtracted ==
    /\ "1" \in DOMAIN ExtractQLabUpdates(comparison, CurrentQLabData)
    /\ comparison.CueResults["1"].Action = "update"
    /\ comparison.CueResults["1"].Reason = "User chose to use source file version"

(***************************************************************************)
(* Single calls: one function of the library is called once                *)
(* fnArgs names the function and holds its arguments; the action of that   *)
(* name runs it and leaves what it returned in fnResult.                   *)
(***************************************************************************)

\* the calls made: Send and SendWithArgs with the messages the library sends
\* to the workspace W1 (does: what the message does at the remote system);
\* GetAddress on workspaces with and without an ID;
\* PerformThreeWayComparison of a source list that holds an unnamed,
\* unnumbered group of unnumbered audio cues with live trees of the same or
\* another structure, without a cache or with the snapshot of that live tree;
\* compareCuePropertiesDetailed of two cues that hold one compared field (or
\* lack it), over string, number and boolean values of that field;
\* indexCuesFromWorkspace of a tree of one numbered cue in each of the four
\* shapes (source file, parsed file, cache snapshot, query reply), the number
\* a string, a float (held in tenths: 1.0 and 1.00000 are both Flt(10)) or an
\* integer;
\* writeCueFileToCache after a pass over a numbered cue, an unnumbered cue and
\* a group with a child, each changed at the remote system since the previous
\* snapshot, for every assignment of final verdicts to the four keys;
\* IdentifyConflicts of a comparison with cache and live data that differ,
\* whose scope tree holds one cue scope with a name and a duration field
\* change, over the source, cache and remote values of each;
\* indexCuesRecursively of an array of one or two cues without a number, each
\* with or without a name and a type, or of one such parent with two such
\* children, under no parent number or under the parent number 3;
\* the per-cue handler of a list named Act I, with or without a number, on a
\* workspace that has or has not registered an existing list of that name,
\* without an index or at index 0, with no change result or one under the
\* list's number or its positional key;
\* setCueTargets of one or two pending references to the numbers 1 and 9 with
\* a mapping that holds none, one or both of the numbers, the remote system
\* rejecting any of the first four commands
InitFn ==
    LET Messages ==
            {[address |-> "/workspace/W1/new", does |-> "create"],
             [address |-> "/workspace/W1/move/ID1", does |-> "move"],
             [address |-> "/workspace/W1/delete_id/ID1", does |-> "delete"],
             [address |-> "/workspace/W1/cue_id/ID1/name", does |-> "set cue property"],
             [address |-> "/workspace/W1/cue_id/ID1/number", does |-> "set cue property"],
             [address |-> "/workspace/W1/cue_id/ID1/fileTarget", does |-> "set cue property"],
             [address |-> "/workspace/W1/cue_id/L1/name", does |-> "set cue list property"],
             [address |-> "/connect", does |-> "query"],
             [address |-> "/alwaysReply", does |-> "query"],
             [address |-> "/workspace/W1/cueLists", does |-> "query"],
             [address |-> "/workspace/W1/cueLists/shallow", does |-> "query"],
             [address |-> "/workspace/W1/cueLists/uniqueIDs", does |-> "query"],
             [address |-> "/workspace/W1/basePath", does |-> "query"],
             [address |-> "/workspace/W1/cue_id/ID1/children", does |-> "query"],
             [address |-> "/workingDirectory", does |-> "query"]}
        SendCalls ==
            {[fn |-> f, dryRun |-> b, address |-> m.address, does |-> m.does] :
                f \in {"Send", "SendWithArgs"}, b \in BOOLEAN, m \in Messages}
        GetAddressCalls ==
            {[fn |-> "GetAddress", workspace_id |-> w, msg |-> a] :
                w \in {"", "W1"},
                a \in {"/connect", "/disconnect", "/alwaysReply", "/version", "/updates",
                       "/udpReplyPort", "/workspaces", "/select/1", "/go", "/panic",
                       "/cueLists", "/cue/1/name", "/workspace/OTHER/select/1",
                       "/workspace/W1/cueLists", "select/1", "go", ""}}
        Audio(name, id) ==
            IF id = "" THEN [name |-> Str(name), type |-> Str("audio")]
            ELSE [name |-> Str(name), type |-> Str("audio"), uniqueID |-> Str(id)]
        Group(cs, id) ==
            IF id = "" THEN [name |-> Str(""), type |-> Str("group"), cues |-> cs]
            ELSE [name |-> Str(""), type |-> Str("group"), cues |-> cs,
                  uniqueID |-> Str(id)]
        Preshow(cs) == [name |-> Str("Preshow"), type |-> Str("list"), cues |-> cs]
        PreshowList(cs) ==
            [name |-> Str("Preshow"), type |-> Str("cueList"),
             uniqueID |-> Str("preshow-list"), cues |-> cs]
        GroupSources ==
            {CuesWorkspace(<<Preshow(<<Group(<<Audio("A", ""), Audio("B", "")>>, "")>>)>>),
             CuesWorkspace(<<Preshow(<<Group(<<Audio("B", ""), Audio("A", "")>>, "")>>)>>),
             CuesWorkspace(<<Preshow(<<Group(<<Audio("A", "")>>, "")>>)>>)}
        GroupLists ==
            {<<PreshowList(<<Group(<<Audio("A", "a-id"), Audio("B", "b-id")>>, "g-id")>>)>>,
             <<PreshowList(<<Group(<<Audio("B", "b-id"), Audio("A", "a-id")>>, "g-id")>>)>>,
             <<PreshowList(<<Group(<<Audio("A", "a-id")>>, "g-id")>>)>>,
             <<PreshowList(<<Audio("A", "a-id"), Audio("B", "b-id")>>)>>,
             <<PreshowList(<<>>)>>}
        ThreeWayCalls ==
            {[fn |-> "PerformThreeWayComparison", source |-> src, hasCache |-> hc,
              cached |-> DataWorkspace(ls), hasQLabData |-> hq,
              current |-> [shape |-> "dataMap", cues |-> <<>>, lists |-> ls]] :
                src \in GroupSources, hc \in BOOLEAN, hq \in BOOLEAN, ls \in GroupLists}
        FieldValues(prop) ==
            CASE prop \in {"name", "notes"} -> {Str(""), Str("A"), Str("a"), Str("B")}
              [] prop = "type" -> {Str(""), Str("audio"), Str("Audio"), Str("memo")}
              [] prop = "fileTarget" ->
                    {Str(""), Str("a.wav"), Str("media/a.wav"), Str("/x/b.wav")}
              [] prop = "duration" -> {Str(""), Str("0"), Str("5"), Flt(0), Flt(55), IntV(0)}
              [] prop = "cueTargetNumber" -> {Str(""), Str("1"), Str("2"), IntV(1)}
              [] prop \in {"armed", "flagged"} ->
                    {Str(""), Str("true"), BoolV(TRUE), BoolV(FALSE)}
              [] prop = "colorName" -> {Str(""), Str("none"), Str("red")}
        OneFieldCues(prop) ==
            {[number |-> Str("1")]}
            \cup {[number |-> Str("1")] @@ (prop :> v) : v \in FieldValues(prop)}
        CompareCalls ==
            UNION {{[fn |-> "compareCuePropertiesDetailed", prop |-> allProperties[i],
                     cue1 |-> c1, cue2 |-> c2] :
                        c1 \in OneFieldCues(allProperties[i]),
                        c2 \in OneFieldCues(allProperties[i])} :
                   i \in 1..Len(allProperties)}
        IndexCalls ==
            {[fn |-> "indexCuesFromWorkspace", number |-> n, shape |-> sh] :
                n \in {Str("1.0"), Flt(10), IntV(3), Str("3"), Flt(30), Flt(15),
                       Flt(10000), IntV(1), Str("1")},
                sh \in {"cues", "workspace", "dataArray", "dataMap"}}
        Snapshot(name, notes, childName) ==
            DataWorkspace(<<CueList(<<
                [number |-> Str("1"), name |-> Str(name), type |-> Str("audio"),
                 uniqueID |-> Str("ID1")],
                [name |-> Str("P"), type |-> Str("audio"), notes |-> Str(notes),
                 uniqueID |-> Str("ID0")],
                [number |-> Str("3"), name |-> Str("G"), type |-> Str("group"),
                 uniqueID |-> Str("ID3"),
                 cues |-> <<[number |-> Str("2"), name |-> Str(childName),
                             type |-> Str("memo"), uniqueID |-> Str("ID4")]>>]>>)>>)
        Verdicts ==
            {[Action |-> "skip", Reason |-> "User chose to skip this cue"],
             [Action |-> "skip", Reason |-> "User chose to keep QLab version"],
             [Action |-> "skip", Reason |-> "unchanged since last transmission"],
             [Action |-> "update", Reason |-> "source file modified"]}
        CacheCalls ==
            {[fn |-> "writeCueFileToCache", HasCache |-> hc, CueResults |-> rs,
              originalCache |-> Snapshot("A", "", "C"),
              currentWorkspace |-> Snapshot("M", "n", "D")] :
                hc \in BOOLEAN,
                rs \in [{"1", "@1[audio:P]", "3", "3.2"} -> Verdicts]}
        FieldChangeChoices(prop, values) ==
            {NoFieldConflicts}
            \cup {(prop :> FieldConflict(prop, sv, cv, qv)) :
                      sv \in values, cv \in values, qv \in values}
        Unnumbered ==
            {n @@ t : n \in {<<>>, [name |-> Str("")], [name |-> Str("A")]},
                      t \in {<<>>, [type |-> Str("")], [type |-> Str("Audio")]}}
        UnnumberedArrays ==
            {<<c>> : c \in Unnumbered}
            \cup {<<c1, c2>> : c1 \in Unnumbered, c2 \in Unnumbered}
            \cup {<<p @@ [cues |-> <<c1, c2>>]>> :
                     p \in {<<>>, [type |-> Str("group")]},
                     c1 \in Unnumbered, c2 \in Unnumbered}
        UnnumberedCalls ==
            {[fn |-> "indexCuesRecursively", cuesData |-> cs, parentNumber |-> pn] :
                cs \in UnnumberedArrays, pn \in {"", "3"}}
        ExistingListCalls ==
            {[fn |-> "processCueList",
              cueData |-> n @@ [name |-> Str("Act I"), type |-> Str("list"),
                                cues |-> <<[type |-> Str("audio"), number |-> Str("1.0"),
                                            name |-> Str("Opening Music")]>>],
              cueListNames |-> names, changeResults |-> rs, cueIndex |-> i] :
                n \in {<<>>, [number |-> Str("5")]},
                names \in {NoIDs, "Act I" :> "existing-list-123"},
                i \in {0 - 1, 0},
                rs \in {EmptyMap}
                       \cup {(k :> c) :
                                k \in {"5", "@0[list:Act I]"},
                                c \in ChangeResultChoices
                                      \cup {ChangeResult("skip", "existing-list-123")}}}
        TargetCalls ==
            {[fn |-> "setCueTargets", CuesWithTargets |-> ts, NumberToID |-> ids,
              failing |-> fs] :
                ts \in {<<[UniqueID |-> "ID1", TargetNumber |-> "1"]>>,
                        <<[UniqueID |-> "ID1", TargetNumber |-> "1"],
                          [UniqueID |-> "ID2", TargetNumber |-> "9"]>>,
                        <<[UniqueID |-> "ID2", TargetNumber |-> "9"],
                          [UniqueID |-> "ID1", TargetNumber |-> "1"]>>},
                ids \in {NoIDs, "1" :> "ID3", ("1" :> "ID3") @@ ("9" :> "ID4")},
                fs \in SUBSET (1..4)}
        ConflictCalls ==
            {[fn |-> "IdentifyConflicts",
              comparison |->
                  [NoComparison EXCEPT
                      !.HasCache = TRUE, !.HasQLabData = TRUE,
                      !.WorkspaceScope =
                          WorkspaceScopeOf(TRUE, <<CueScope("1", ex, names @@ durations)>>)]] :
                ex \in BOOLEAN,
                names \in FieldChangeChoices("name", {Str("A"), Str("B"), Nil}),
                durations \in FieldChangeChoices("duration", {Str(""), Str("0"), IntV(5)})}
    IN  /\ RecIdle
        /\ CoordinatorIdle
        /\ wasConnected = FALSE
        /\ DriverIdle
        /\ fnArgs \in SendCalls \cup GetAddressCalls \cup ThreeWayCalls
                      \cup CompareCalls \cup IndexCalls \cup CacheCalls
                      \cup ConflictCalls \cup UnnumberedCalls
                      \cup ExistingListCalls \cup TargetCalls
        /\ fnResult = <<>>

\* isWriteOperation
isWriteOperation(address) ==
    IF \E writeOp \in {"/new", "/move", "/delete", "/cue_id/", "/cueList_id/"} :
          ContainsStr(address, writeOp)
    THEN TRUE
    ELSE IF \E readOp \in {"/connect", "/alwaysReply", "/cueLists", "/cues", "/basePath"} :
               ContainsStr(address, readOp)
    THEN FALSE
    ELSE TRUE

\* mockDryRunResponse: the fields of the JSON reply (absent ones are "")
mockDryRunResponse(address) ==
    IF ContainsStr(address, "/new")
    THEN [status |-> "ok", data |-> "DRYRUN", address |-> address, dry_run |-> ""]
    ELSE IF ContainsStr(address, "/cue_id/") \/ ContainsStr(address, "/move/")
    THEN [status |-> "ok", data |-> "", address |-> address, dry_run |-> ""]
    ELSE [status |-> "ok", data |-> "", address |-> "", dry_run |-> "true"]

\* Send: in dry-run mode a write operation is answered by a mock reply,
\* everything else is handed to sendWithRetry, which transmits it
Send ==
    /\ fnArgs.fn = "Send"
    /\ fnResult = <<>>
    /\ fnResult' = IF fnArgs.dryRun /\ isWriteOperation(fnArgs.address)
                   THEN [transmitted |-> FALSE,
                         reply |-> mockDryRunResponse(fnArgs.address)]
                   ELSE [transmitted |-> TRUE, reply |-> "sendWithRetry"]
    /\ UNCHANGED <<recVars, oscVars, drvVars, fnArgs>>

\* SendWithArgs
SendWithArgs ==
    /\ fnArgs.fn = "SendWithArgs"
    /\ fnResult = <<>>
    /\ fnResult' = IF fnArgs.dryRun /\ isWriteOperation(fnArgs.address)
                   THEN [transmitted |-> FALSE,
                         reply |-> mockDryRunResponse(fnArgs.address)]
                   ELSE [transmitted |-> TRUE, reply |-> "sendWithRetry"]
    /\ UNCHANGED <<recVars, oscVars, drvVars, fnArgs>>

\* a Send or SendWithArgs call has returned
Sent == fnResult # <<>> /\ fnArgs.fn \in {"Send", "SendWithArgs"}

\* C11: in dry-run mode no message that creates, moves or deletes a cue or
\* sets a property of a cue or cue list is transmitted; a mock reply with
\* status ok is returned instead; a message that only queries is transmitted.
C11_DryRunBlocksWritesOnly ==
    (Sent /\ fnArgs.dryRun) =>
        IF fnArgs.does = "query"
        THEN fnResult.transmitted
        ELSE ~fnResult.transmitted /\ fnResult.reply.status = "ok"

\* the part of C11 about the messages that change the workspace
C11_DryRunBlocksWrites ==
    (Sent /\ fnArgs.dryRun /\ fnArgs.does # "query") =>
        ~fnResult.transmitted /\ fnResult.reply.status = "ok"

\* the mutant of GetAddress without the allow-list of application-level commands
GetAddressAllScoped ==
    /\ fnArgs.fn = "GetAddress"
    /\ fnResult = <<>>
    /\ fnResult' = [value |->
            IF ~HasPrefix(fnArgs.msg, "/") THEN fnArgs.msg
            ELSE IF HasPrefix(fnArgs.msg, "/workspace/") THEN fnArgs.msg
            ELSE IF fnArgs.workspace_id = "" THEN fnArgs.msg
            ELSE "/workspace/" \o fnArgs.workspace_id \o fnArgs.msg]
    /\ UNCHANGED <<recVars, oscVars, drvVars, fnArgs>>

\* GetAddress, on a workspace made by NewWorkspace or NewWorkspaceWithID
\* (both set the address builder)
GetAddress ==
    /\ fnArgs.fn = "GetAddress"
    /\ fnResult = <<>>
    /\ fnResult' = [value |->
            IF ~HasPrefix(fnArgs.msg, "/") THEN fnArgs.msg
            ELSE IF HasPrefix(fnArgs.msg, "/workspace/") THEN fnArgs.msg
            ELSE IF \E cmd \in {"/connect", "/disconnect", "/alwaysReply", "/version",
                                "/updates", "/udpReplyPort", "/workspaces"} :
                        HasPrefix(fnArgs.msg, cmd)
                 THEN fnArgs.msg
            ELSE IF fnArgs.workspace_id = "" THEN fnArgs.msg
            ELSE "/workspace/" \o fnArgs.workspace_id \o fnArgs.msg]
    /\ UNCHANGED <<recVars, oscVars, drvVars, fnArgs>>

\* the call of the function fn has returned
Returned(fn) == fnResult # <<>> /\ fnArgs.fn = fn

C12_WitnessScoped ==
    /\ Returned("GetAddress")
    /\ fnArgs.msg = "/cue/1/name"
    /\ fnResult.value = "/workspace/W1/cue/1/name"

\* PerformThreeWayComparison on trees given by the caller (the scope
\* comparison, which only adds field conflicts to the results, is left nil)
ThreeWayComparison ==
    /\ fnArgs.fn = "PerformThreeWayComparison"
    /\ fnResult = <<>>
    /\ fnResult' = PerformThreeWayComparison(fnArgs.source, fnArgs.hasCache,
                        fnArgs.cached, fnArgs.hasQLabData, fnArgs.current, NoScope)
    /\ UNCHANGED <<recVars, oscVars, drvVars, fnArgs>>

\* the positional keys of the group and its two audio cues
GroupKeys == {"@0[group:]", "@0[audio:A]", "@1[audio:B]"}

\* the compared source holds the group with audio cues A and B, and the live
\* tree queried has the same structure
SameGroupBothSides ==
    /\ Returned("PerformThreeWayComparison")
    /\ fnArgs.hasQLabData
    /\ LET group == workspaceCuesData(fnArgs.source)[1]["cues"]
           live  == workspaceCuesData(fnArgs.current)
       IN  /\ Len(group) = 1 /\ Len(live) = 1
           /\ HasSubCues(group[1]) /\ HasSubCues(live[1])
           /\ Len(group[1]["cues"]) = 2 /\ Len(live[1]["cues"]) = 2
           /\ GetString(group[1], "type") = "group" /\ GetString(live[1], "type") = "group"
           /\ \A i \in 1..2 :
                 /\ GetString(group[1]["cues"][i], "name") = (IF i = 1 THEN "A" ELSE "B")
                 /\ GetString(live[1]["cues"][i], "name") = (IF i = 1 THEN "A" ELSE "B")
                 /\ uniqueIDOf(live[1]["cues"][i]) # ""

\* C14: for a source list holding an unnamed, unnumbered group with two
\* unnumbered audio cues A and B and a live tree of identical structure with
\* its own uniqueIDs, both sides index the group and the audio cues under the
\* keys @0[group:], @0[audio:A] and @1[audio:B], and the three are classified
\* skip, not create.
C14_PositionalKeysSkip ==
    SameGroupBothSides =>
        /\ GroupKeys \subseteq DOMAIN indexCuesFromWorkspace(fnArgs.source)
        /\ GroupKeys \subseteq DOMAIN indexCuesFromWorkspace(fnArgs.current)
        /\ \A k \in GroupKeys :
              /\ k \in DOMAIN fnResult.CueResults
              /\ fnResult.CueResults[k].Action = "skip"
              /\ fnResult.CueResults[k].ExistingID =
                    uniqueIDOf(indexCuesFromWorkspace(fnArgs.current)[k])

\* the group was compared without a cache and its cues found by position
C14_Witness ==
    /\ SameGroupBothSides
    /\ ~fnArgs.hasCache
    /\ fnResult.CueResults["@1[audio:B]"].Action = "skip"
    /\ fnResult.CueResults["@1[audio:B]"].ExistingID = "b-id"
    /\ fnResult.CueResults["@0[list:Preshow]"].Action = "create"

\* compareCuePropertiesDetailed on two cues given by the caller
CompareDetailed ==
    /\ fnArgs.fn = "compareCuePropertiesDetailed"
    /\ fnResult = <<>>
    /\ fnResult' = [value |-> compareCuePropertiesDetailed(fnArgs.cue1, fnArgs.cue2)]
    /\ UNCHANGED <<recVars, oscVars, drvVars, fnArgs>>

\* the compared field's values of the two cues, as strings
ComparedOld == normalizeProperty(Get(fnArgs.cue1, fnArgs.prop))

ComparedNew == normalizeProperty(Get(fnArgs.cue2, fnArgs.prop))

\* the equivalences the statement lists
ListedEquivalent ==
    \/ fnArgs.prop \in {"armed", "flagged"}
    \/ fnArgs.prop = "colorName" /\ {ComparedOld, ComparedNew} = {"", "none"}
    \/ fnArgs.prop = "duration" /\ {ComparedOld, ComparedNew} = {"", "0"}
    \/ fnArgs.prop = "type" /\ ToLower(ComparedOld) = ToLower(ComparedNew)

\* the rules for file-target and cue-target-number: compared only when both
\* cues have the key, file-target by base name
TargetRuleApplies ==
    \/ /\ fnArgs.prop \in {"fileTarget", "cueTargetNumber"}
       /\ (fnArgs.prop \notin DOMAIN fnArgs.cue1 \/ fnArgs.prop \notin DOMAIN fnArgs.cue2)
    \/ /\ fnArgs.prop = "fileTarget"
       /\ ComparedOld # "" /\ ComparedNew # ""
       /\ Base(ComparedOld) = Base(ComparedNew)

\* the field is reported as 'old' -> 'new'
ReportedAsOldNew ==
    /\ fnArgs.prop \in DOMAIN fnResult.value
    /\ fnResult.value[fnArgs.prop] = "'" \o ComparedOld \o "' -> '" \o ComparedNew \o "'"

\* C15 as stated: the comparator reports no difference for any pair of armed
\* or flagged values, for colorName "" and "none", for duration "0" and "",
\* and for type values equal ignoring case; any other differing value of a
\* compared field is reported as 'old' -> 'new'.
C15_ListedEquivalencesOnly ==
    Returned("compareCuePropertiesDetailed") =>
        IF ListedEquivalent \/ ComparedOld = ComparedNew
        THEN fnResult.value = NoFields
        ELSE ReportedAsOldNew

\* C15: as above, and no difference either for a fileTarget or
\* cueTargetNumber that one of the cues does not have and for fileTarget
\* values with the same base name; any other differing value is reported as
\* 'old' -> 'new'.
C15_FieldEquivalences ==
    Returned("compareCuePropertiesDetailed") =>
        IF ListedEquivalent \/ TargetRuleApplies \/ ComparedOld = ComparedNew
        THEN fnResult.value = NoFields
        ELSE ReportedAsOldNew

\* colorName "" was compared with "none" and no difference reported
C15_Witness ==
    /\ Returned("compareCuePropertiesDetailed")
    /\ fnArgs.prop = "colorName"
    /\ ComparedOld = "" /\ ComparedNew = "none"
    /\ "colorName" \in DOMAIN fnArgs.cue1
    /\ fnResult.value = NoFields

\* a differing name was reported
C15_WitnessReported ==
    /\ Returned("compareCuePropertiesDetailed")
    /\ fnArgs.prop = "name"
    /\ fnResult.value = [k \in {"name"} |-> "'A' -> 'B'"]

\* the tree of the given shape that holds one audio cue with the number
OneCueTree(shape, number) ==
    LET cue == [number |-> number, name |-> Str("A"), type |-> Str("audio")]
    IN  IF shape \in {"cues", "workspace"}
        THEN [shape |-> shape, cues |-> <<cue>>, lists |-> <<>>]
        ELSE [shape |-> shape, cues |-> <<>>, lists |-> <<CueList(<<cue>>)>>]

\* indexCuesFromWorkspace on a tree given by the caller
IndexCues ==
    /\ fnArgs.fn = "indexCuesFromWorkspace"
    /\ fnResult = <<>>
    /\ fnResult' = [value |->
            indexCuesFromWorkspace(OneCueTree(fnArgs.shape, fnArgs.number))]
    /\ UNCHANGED <<recVars, oscVars, drvVars, fnArgs>>

\* C16: a cue whose number is the string "1.0" or the float 1.0 (1.00000 is
\* the same float) is indexed under the key "1.0", the integer 3 under "3"
\* without a decimal point, and a number gets the same key in a source tree,
\* a cache snapshot and a query reply.
C16_NumberKeys ==
    Returned("indexCuesFromWorkspace") =>
        /\ fnArgs.number \in {Str("1.0"), Flt(10)} => DOMAIN fnResult.value = {"1.0"}
        /\ fnArgs.number = IntV(3) => DOMAIN fnResult.value = {"3"}
        /\ \A sh \in {"cues", "workspace", "dataArray", "dataMap"} :
              DOMAIN indexCuesFromWorkspace(OneCueTree(sh, fnArgs.number))
                 = DOMAIN fnResult.value
        /\ Cardinality(DOMAIN fnResult.value) = 1

\* the float 1.0 of a query reply was indexed under "1.0"
C16_Witness ==
    /\ Returned("indexCuesFromWorkspace")
    /\ fnArgs.number = Flt(10)
    /\ fnArgs.shape = "dataMap"
    /\ "1.0" \in DOMAIN fnResult.value
    /\ GetString(fnResult.value["1.0"], "name") = "A"

\* extractCueIdentifier
extractCueIdentifier(cue, parentNumber) ==
    IF buildFullNumber(parentNumber, formatCueNumber(cue)) = ""
    THEN "[" \o GetString(cue, "type") \o ":" \o GetString(cue, "name") \o "]"
    ELSE buildFullNumber(parentNumber, formatCueNumber(cue))

RECURSIVE findAndReplaceCueInArray(_, _, _, _, _)
\* findAndReplaceCueInArray, from the i-th element (1-based) of cues on: was
\* the cue found, and the array after the replacement
findAndReplaceCueInArray(cues, i, cachedCue, cueNumber, parentNumber) ==
    LET inChildren(sub) ==
            IF sub.found
            THEN [found |-> TRUE,
                  cues |-> [cues EXCEPT ![i] = Put(cues[i], "cues", sub.cues)]]
            ELSE findAndReplaceCueInArray(cues, i + 1, cachedCue, cueNumber, parentNumber)
    IN  IF i > Len(cues) THEN [found |-> FALSE, cues |-> cues]
        ELSE IF extractCueIdentifier(cues[i], parentNumber) = cueNumber
        THEN [found |-> TRUE, cues |-> [cues EXCEPT ![i] = cachedCue]]
        ELSE IF HasSubCues(cues[i])
        THEN inChildren(findAndReplaceCueInArray(cues[i]["cues"], 1, cachedCue,
                            cueNumber, extractCueIdentifier(cues[i], parentNumber)))
        ELSE findAndReplaceCueInArray(cues, i + 1, cachedCue, cueNumber, parentNumber)

RECURSIVE replaceWorkspaceCueWithCached(_, _, _, _)
\* replaceWorkspaceCueWithCached, from the i-th cue list of the data array on
\* (a cue that is not found leaves the workspace as it is)
replaceWorkspaceCueWithCached(lists, i, cachedCue, cueNumber) ==
    LET inList(r) ==
            IF r.found THEN [lists EXCEPT ![i] = Put(lists[i], "cues", r.cues)]
            ELSE replaceWorkspaceCueWithCached(lists, i + 1, cachedCue, cueNumber)
    IN  IF i > Len(lists) THEN lists
        ELSE IF HasSubCues(lists[i])
        THEN inList(findAndReplaceCueInArray(lists[i]["cues"], 1, cachedCue, cueNumber, ""))
        ELSE replaceWorkspaceCueWithCached(lists, i + 1, cachedCue, cueNumber)

\* writeCueFileToCache, from the query of the current state on (the query and
\* the read of the previous snapshot succeed); the results are visited in
\* any order, as a Go map is
writeCueFileToCache ==
    /\ fnArgs.fn = "writeCueFileToCache"
    /\ fnResult = <<>>
    /\ \E order \in {o \in [1..Cardinality(DOMAIN fnArgs.CueResults) -> DOMAIN fnArgs.CueResults] :
                        \A a, b \in DOMAIN o : a # b => o[a] # o[b]} :
          LET originalCues == indexCuesFromWorkspace(fnArgs.originalCache)
              restore[n \in 0..Len(order)] ==
                  IF n = 0 THEN fnArgs.currentWorkspace.lists
                  ELSE IF /\ fnArgs.CueResults[order[n]].Action = "skip"
                          /\ fnArgs.CueResults[order[n]].Reason = "User chose to skip this cue"
                          /\ order[n] \in DOMAIN originalCues
                       THEN replaceWorkspaceCueWithCached(restore[n - 1], 1,
                                originalCues[order[n]], order[n])
                       ELSE restore[n - 1]
          IN  fnResult' = [value |-> IF fnArgs.HasCache
                                     THEN DataWorkspace(restore[Len(order)])
                                     ELSE fnArgs.currentWorkspace]
    /\ UNCHANGED <<recVars, oscVars, drvVars, fnArgs>>

\* the cue stored under key k in the snapshot written
StoredCue(k) == indexCuesFromWorkspace(fnResult.value)[k]

\* the verdicts of a cue's ancestors do not decide what is stored for it:
\* no ancestor of k was restored from the previous snapshot
NoAncestorRestored(k) ==
    k = "3.2" => ~(/\ fnArgs.CueResults["3"].Action = "skip"
                   /\ fnArgs.CueResults["3"].Reason = "User chose to skip this cue")

\* C17 as stated: after a pass, the new snapshot holds for every cue whose
\* final action is skip the cue's values of the previous snapshot, not the
\* current remote values, and for every other cue the remote values.
C17_SkippedCuesKeepCachedValues ==
    (Returned("writeCueFileToCache") /\ fnArgs.HasCache) =>
        \A k \in DOMAIN fnArgs.CueResults :
            IF fnArgs.CueResults[k].Action = "skip"
            THEN StoredCue(k) = indexCuesFromWorkspace(fnArgs.originalCache)[k]
            ELSE NoAncestorRestored(k) =>
                    StoredCue(k) = indexCuesFromWorkspace(fnArgs.currentWorkspace)[k]

\* what the writer does for a numbered cue the user chose to skip: its
\* previous values are stored
C17_UserSkippedNumberedCuesKept ==
    (Returned("writeCueFileToCache") /\ fnArgs.HasCache) =>
        \A k \in {"1", "3", "3.2"} :
            (/\ fnArgs.CueResults[k].Action = "skip"
             /\ fnArgs.CueResults[k].Reason = "User chose to skip this cue")
                => StoredCue(k) = indexCuesFromWorkspace(fnArgs.originalCache)[k]

\* q.indexCuesRecursively(cuesData, parentNumber, cueIndex) into an empty index
IndexUnnumbered ==
    /\ fnArgs.fn = "indexCuesRecursively"
    /\ fnResult = <<>>
    /\ fnResult' = [value |-> indexCuesRecursively(fnArgs.cuesData, 1,
                                                   fnArgs.parentNumber, EmptyMap)]
    /\ UNCHANGED <<recVars, oscVars, drvVars, fnArgs>>

\* the cue has no number, no name and no type
Anonymous(cue) ==
    formatCueNumber(cue) = "" /\ GetString(cue, "name") = "" /\ GetString(cue, "type") = ""

\* the positional key of the i-th cue (1-based) of the array of the call
PositionKeyAt(i) ==
    buildPositionKey(fnArgs.parentNumber, i - 1, GetString(fnArgs.cuesData[i], "type"),
                     GetString(fnArgs.cuesData[i], "name"))

\* C33 as stated: a cue that has no number, no name and no type is still
\* entered in the index, under the positional key built from its position
\* with empty type and name.
C33_AnonymousCueIndexed ==
    Returned("indexCuesRecursively") =>
        \A i \in 1..Len(fnArgs.cuesData) :
            Anonymous(fnArgs.cuesData[i]) => PositionKeyAt(i) \in DOMAIN fnResult.value

(* C33, amended: a cue without a number is entered under the positional    *)
(* key of its position, lowercase type and name when it has a type or a    *)
(* name; a cue with no number, no name and no type is not entered, and no  *)
(* key with empty type and name is in the index.  The sub-cues of an       *)
(* unnumbered cue are indexed by their position under an empty parent      *)
(* number.                                                                 *)
C33_UnnumberedCueIndexedIfTypedOrNamed ==
    Returned("indexCuesRecursively") =>
        /\ \A i \in 1..Len(fnArgs.cuesData) :
              IF Anonymous(fnArgs.cuesData[i])
              THEN PositionKeyAt(i) \notin DOMAIN fnResult.value
              ELSE /\ PositionKeyAt(i) \in DOMAIN fnResult.value
                   /\ GetString(fnResult.value[PositionKeyAt(i)], "name")
                         = GetString(fnArgs.cuesData[i], "name")
                   /\ ToLower(GetString(fnResult.value[PositionKeyAt(i)], "type"))
                         = ToLower(GetString(fnArgs.cuesData[i], "type"))
        /\ \A k \in DOMAIN fnResult.value :
              /\ ~Anonymous(fnResult.value[k])
              /\ \/ \E i \in 1..Len(fnArgs.cuesData) : k = PositionKeyAt(i)
                 \/ \E i \in 1..Len(fnArgs.cuesData) :
                       /\ HasSubCues(fnArgs.cuesData[i])
                       /\ \E j \in 1..Len(fnArgs.cuesData[i]["cues"]) :
                             k = buildPositionKey("", j - 1,
                                     GetString(fnArgs.cuesData[i]["cues"][j], "type"),
                                     GetString(fnArgs.cuesData[i]["cues"][j], "name"))

\* an array of a cue without number, name and type followed by an audio cue
\* A was indexed: the index holds the second cue only
C33_Witness ==
    /\ Returned("indexCuesRecursively")
    /\ fnArgs.parentNumber = ""
    /\ Len(fnArgs.cuesData) = 2
    /\ Anonymous(fnArgs.cuesData[1])
    /\ DOMAIN fnResult.value = {"@1[audio:A]"}

\* comparePropertyValues of the normalized values a and b of a field says
\* they differ
ValuesDiffer(field, a, b) ==
    ~comparePropertyValues(field, normalizeProperty(a), normalizeProperty(b))

\* q.IdentifyConflicts(comparison) of a comparison that carries a scope tree
IdentifyScopeConflicts ==
    /\ fnArgs.fn = "IdentifyConflicts"
    /\ fnResult = <<>>
    /\ fnResult' = [value |-> IdentifyConflicts(fnArgs.comparison)]
    /\ UNCHANGED <<recVars, oscVars, drvVars, fnArgs>>

\* the field changes of the cue scope a reported conflict names, restricted
\* to the properties the conflict lists
ConflictFields(c) ==
    LET changes == fnArgs.comparison.WorkspaceScope.ChildScopes[1].FieldChanges
    IN  [f \in c.Properties |-> changes[f]]

C32_WitnessStale ==
    /\ Returned("IdentifyConflicts")
    /\ \E c \in fnResult.value : c.ConflictType = "cache_stale"

\* q.processCueListWithParentMappingAndChangeDetectionWithIndex(cueData, "",
\* "", mapping, changeResults, cueIndex) on a workspace whose cueListNames
\* are those of the call
ProcessCueList ==
    /\ fnArgs.fn = "processCueList"
    /\ fnResult = <<>>
    /\ fnResult' = [value |->
          processCue([NewDriver(NoIDs, FALSE, 0)
                          EXCEPT !.cueListNames = fnArgs.cueListNames],
                     fnArgs.cueData, "", "", fnArgs.changeResults, fnArgs.cueIndex)]
    /\ UNCHANGED <<recVars, oscVars, drvVars, fnArgs>>

\* the handler has processed a list whose name is registered as an existing list
ExistingListProcessed ==
    /\ Returned("processCueList")
    /\ GetString(fnArgs.cueData, "type") = "list"
    /\ GetString(fnArgs.cueData, "name") \in DOMAIN fnArgs.cueListNames

\* the key the handler looks the list's change result up under ("" for none)
ListLookupKey ==
    IF GetString(fnArgs.cueData, "number") # "" THEN GetString(fnArgs.cueData, "number")
    ELSE IF fnArgs.cueIndex >= 0
    THEN buildPositionKey("", fnArgs.cueIndex, "list", GetString(fnArgs.cueData, "name"))
    ELSE ""

(* C36: processing a source cue of type list whose name is already         *)
(* registered as an existing cue list never issues a create command for it *)
(* and returns the existing list's remote ID, whatever the change results  *)
(* contain for that cue.                                                   *)
C36_ExistingListNeverCreated ==
    ExistingListProcessed =>
        /\ \A n \in 1..Len(fnResult.value.sent) :
              ~(fnResult.value.sent[n].op = "new" /\ fnResult.value.sent[n].value = "list")
        /\ fnResult.value.err = ""
        /\ fnResult.value.id = fnArgs.cueListNames[GetString(fnArgs.cueData, "name")]

\* the part of C36 that holds: when the change results hold nothing under the
\* list's key, nothing is sent and the existing list's ID is returned
C36_ExistingListReusedWithoutChangeResult ==
    (ExistingListProcessed /\ ListLookupKey \notin DOMAIN fnArgs.changeResults) =>
        /\ fnResult.value.sent = <<>>
        /\ fnResult.value.err = ""
        /\ fnResult.value.id = fnArgs.cueListNames[GetString(fnArgs.cueData, "name")]

\* the registered list had a create verdict, and a second list was created
C36_DuplicateListCreated ==
    /\ ExistingListProcessed
    /\ Len(fnResult.value.sent) > 0
    /\ fnResult.value.sent[1] = Command("new", "", "type", "list")
    /\ fnResult.value.id = "ID1"

\* the target-resolution step of a pass: q.setCueTargets(mapping) and what
\* transmitCueFileWithChangeDetection returns after it
ResolveTargets ==
    /\ fnArgs.fn = "setCueTargets"
    /\ fnResult = <<>>
    /\ \E d \in {setCueTargets([NewDriver(NoIDs, FALSE, 0)
                                   EXCEPT !.CuesWithTargets = fnArgs.CuesWithTargets,
                                          !.NumberToID = fnArgs.NumberToID,
                                          !.failing = fnArgs.failing], 1)} :
          fnResult' = [value |-> d,
                       passErr |-> IF d.err # ""
                                   THEN "failed to set cue targets: " \o d.err
                                   ELSE ""]
    /\ UNCHANGED <<recVars, oscVars, drvVars, fnArgs>>

\* the positions among the commands sent of the command that sets property
\* on the cue of the i-th reference
TargetCommandsOf(i, property) ==
    {n \in 1..Len(fnResult.value.sent) :
        /\ fnResult.value.sent[n].op = "set"
        /\ fnResult.value.sent[n].id = fnArgs.CuesWithTargets[i].UniqueID
        /\ fnResult.value.sent[n].property = property}

\* the i-th reference could not be resolved: the remote system rejected its
\* target number and the mapping does not hold the number
UnresolvedReference(i) ==
    /\ \E n \in TargetCommandsOf(i, "cueTargetNumber") : n \in fnArgs.failing
    /\ fnArgs.CuesWithTargets[i].TargetNumber \notin DOMAIN fnArgs.NumberToID

\* the remote system rejected a fallback by ID
FallbackRejected ==
    \E i \in 1..Len(fnArgs.CuesWithTargets) :
        \E n \in TargetCommandsOf(i, "cueTargetID") : n \in fnArgs.failing

(* C37: in the target-resolution step, a number-based target reference     *)
(* that cannot be resolved produces only a warning: the reference is left  *)
(* unset, the step goes on with the next reference, and neither the step   *)
(* nor the pass returns an error because of it (the only error of the step *)
(* is a rejected fallback by ID of a reference the mapping resolves).      *)
C37_UnresolvedTargetOnlyWarns ==
    Returned("setCueTargets") =>
        /\ \A i \in 1..Len(fnArgs.CuesWithTargets) :
              UnresolvedReference(i) =>
                  /\ TargetCommandsOf(i, "cueTargetID") = {}
                  /\ i < Len(fnArgs.CuesWithTargets) =>
                        TargetCommandsOf(i + 1, "cueTargetNumber") # {}
        /\ (fnResult.value.err # "" \/ fnResult.passErr # "") <=> FallbackRejected
        /\ ~FallbackRejected =>
              \A i \in 1..Len(fnArgs.CuesWithTargets) :
                  TargetCommandsOf(i, "cueTargetNumber") # {}

\* the first of two references is unresolved, the second is set by number
C37_Witness ==
    /\ Returned("setCueTargets")
    /\ Len(fnArgs.CuesWithTargets) = 2
    /\ UnresolvedReference(1)
    /\ fnArgs.failing = {1}
    /\ Len(fnResult.value.sent) = 2
    /\ fnResult.value.sent[2] = Command("set", "ID1", "cueTargetNumber", "1")
    /\ fnResult.value.err = ""
    /\ fnResult.passErr = ""

\* both references are unresolved
C37_WitnessBothUnresolved ==
    /\ Returned("setCueTargets")
    /\ Len(fnArgs.CuesWithTargets) = 2
    /\ UnresolvedReference(1) /\ UnresolvedReference(2)
    /\ fnResult.passErr = ""

\* a rejected fallback by ID ends the step with an error
C37_WitnessFallbackRejected ==
    /\ Returned("setCueTargets")
    /\ FallbackRejected
    /\ HasPrefix(fnResult.passErr, "failed to set cue targets: failed to set cue target ")

NextFn ==
    \/ ResolveTargets
    \/ ProcessCueList
    \/ Send
    \/ SendWithArgs
    \/ GetAddress
    \/ ThreeWayComparison
    \/ CompareDetailed
    \/ IndexCues
    \/ writeCueFileToCache
    \/ IdentifyScopeConflicts
    \/ IndexUnnumbered

SpecFn == InitFn /\ [][NextFn]_vars

=============================================================================
